---- MODULE Spec2Model ----
(***************************************************************************)
(* ASYCUDA export-declaration tool: the field-resolution engine.           *)
(*                                                                         *)
(* FuzzyMatcher (data_model/fuzzy_matcher.py), WeightEstimator             *)
(* (data_model/weight_estimator.py), DocumentReferenceMapper               *)
(* (data_model/document_reference.py) and FieldMapper                      *)
(* (data_model/field_mapper.py) as state machines over their tables.       *)
(*                                                                         *)
(* Python values are represented as follows.                               *)
(*   str            a TLA+ string (Len, SubSeq and \o act on characters)   *)
(*   None           the string NoneValue where a str is expected, the      *)
(*                  empty tuple << >> where a tuple is expected            *)
(*   dict           a sequence of <<key, value>> pairs in insertion order  *)
(*   {} (details)   the empty function                                     *)
(*   float score    an exact fraction [n |-> .., d |-> ..] in lowest terms *)
(*   float quantity an exact fraction as well                              *)
(*   float weight   grams: an integer in the tables (0.3 kg is 300), a     *)
(*                  fraction once multiplied by a quantity                 *)
(***************************************************************************)
EXTENDS Integers, Sequences, FiniteSets, TLC

----------------------------------------------------------------------------
(* Bounds of the model.                                                    *)

\* rows of reference data loaded over the life of one matcher
MaxRows == 2

\* mappings added to a WeightEstimator after its construction
MaxMappings == 1

\* rows of the sales table of one map_sales_to_declaration call
MaxSales == 2

\* at most this many items are added to a Declaration
MaxItems == 3
\* the longest list of errors, and of warnings, of a ValidationResult
MaxMessages == 2
\* the most sales files a run finds
MaxFiles == 2
\* the most jobs the schedule module holds
MaxJobs == 3

----------------------------------------------------------------------------
(* Python built-ins on str.                                                *)

LowerAlphabet == "abcdefghijklmnopqrstuvwxyz"
UpperAlphabet == "ABCDEFGHIJKLMNOPQRSTUVWXYZ"
DigitAlphabet == "0123456789"

NoneValue == "<None>"

Char(s, i) == SubSeq(s, i, i)

\* position of character c in alphabet, 0 when absent
IndexOf(c, alphabet) ==
    IF \E i \in 1..Len(alphabet) : Char(alphabet, i) = c
    THEN CHOOSE i \in 1..Len(alphabet) : Char(alphabet, i) = c
    ELSE 0

UpperChar(c) ==
    LET i == IndexOf(c, LowerAlphabet)
    IN  IF i = 0 THEN c ELSE Char(UpperAlphabet, i)

LowerChar(c) ==
    LET i == IndexOf(c, UpperAlphabet)
    IN  IF i = 0 THEN c ELSE Char(LowerAlphabet, i)

RECURSIVE Upper(_)
\* str.upper()
Upper(s) == IF Len(s) = 0 THEN "" ELSE UpperChar(Char(s, 1)) \o Upper(Tail(s))

RECURSIVE Lower(_)
\* str.lower()
Lower(s) == IF Len(s) = 0 THEN "" ELSE LowerChar(Char(s, 1)) \o Lower(Tail(s))

IsSpace(c) == c = " "

RECURSIVE LStrip(_)
LStrip(s) == IF Len(s) > 0 /\ IsSpace(Char(s, 1)) THEN LStrip(Tail(s)) ELSE s

RECURSIVE RStrip(_)
RStrip(s) ==
    IF Len(s) > 0 /\ IsSpace(Char(s, Len(s)))
    THEN RStrip(SubSeq(s, 1, Len(s) - 1))
    ELSE s

\* str.strip()
Strip(s) == RStrip(LStrip(s))

\* sub in s
Contains(sub, s) ==
    \E i \in 1..(Len(s) - Len(sub) + 1) : SubSeq(s, i, i + Len(sub) - 1) = sub

\* s.startswith(prefix)
StartsWith(s, prefix) ==
    Len(prefix) <= Len(s) /\ SubSeq(s, 1, Len(prefix)) = prefix

\* s[:n]
Prefix(s, n) == SubSeq(s, 1, IF n < Len(s) THEN n ELSE Len(s))

\* s[-n:]
Suffix(s, n) == SubSeq(s, (IF n < Len(s) THEN Len(s) - n ELSE 0) + 1, Len(s))

RECURSIVE Replace(_, _, _)
\* s.replace(old, new), old not empty: leftmost occurrences, not overlapping
Replace(s, old, new) ==
    IF Len(s) < Len(old) THEN s
    ELSE IF SubSeq(s, 1, Len(old)) = old
         THEN new \o Replace(SubSeq(s, Len(old) + 1, Len(s)), old, new)
         ELSE Char(s, 1) \o Replace(Tail(s), old, new)

\* a character of the regular expression class \w
IsWordChar(c) ==
    \/ IndexOf(c, UpperAlphabet) > 0
    \/ IndexOf(c, LowerAlphabet) > 0
    \/ IndexOf(c, DigitAlphabet) > 0
    \/ c = "_"

RECURSIVE SplitWords(_, _, _)
\* the maximal runs of characters of s satisfying \w, in order; cur is the
\* run being read and acc the runs already closed
SplitWords(s, cur, acc) ==
    IF Len(s) = 0
    THEN IF Len(cur) = 0 THEN acc ELSE Append(acc, cur)
    ELSE IF IsWordChar(Char(s, 1))
         THEN SplitWords(Tail(s), cur \o Char(s, 1), acc)
         ELSE SplitWords(Tail(s), "",
                         IF Len(cur) = 0 THEN acc ELSE Append(acc, cur))

\* re.findall(r'\b\w+\b', s)
FindWords(s) == SplitWords(s, "", << >>)

Range(f) == {f[i] : i \in DOMAIN f}

----------------------------------------------------------------------------
(* difflib.SequenceMatcher and fuzzywuzzy's token_sort_ratio.              *)

RECURSIVE CommonRun(_, _, _, _)
\* length of the longest common run of a and b starting at a[i] and b[j]
CommonRun(a, i, b, j) ==
    IF i > Len(a) \/ j > Len(b) \/ Char(a, i) # Char(b, j) THEN 0
    ELSE 1 + CommonRun(a, i + 1, b, j + 1)

\* SequenceMatcher.find_longest_match over the whole of a and b, no junk:
\* the longest matching block, the one starting earliest in a and, among
\* those, earliest in b
LongestMatch(a, b) ==
    LET starts == (1..Len(a)) \X (1..Len(b))
        size   == CHOOSE k \in 0..Len(a) :
                     /\ \A p \in starts : CommonRun(a, p[1], b, p[2]) <= k
                     /\ k > 0 => \E p \in starts : CommonRun(a, p[1], b, p[2]) = k
        best   == {p \in starts : CommonRun(a, p[1], b, p[2]) = size}
        i      == CHOOSE x \in {p[1] : p \in best} : \A p \in best : x <= p[1]
        j      == CHOOSE y \in {p[2] : p \in {q \in best : q[1] = i}} :
                     \A p \in {q \in best : q[1] = i} : y <= p[2]
    IN  IF size = 0 THEN [i |-> 1, j |-> 1, size |-> 0]
        ELSE [i |-> i, j |-> j, size |-> size]

RECURSIVE MatchingChars(_, _)
\* sum of the sizes of SequenceMatcher.get_matching_blocks(): the longest
\* match, then the same on what lies left of it and on what lies right of it
MatchingChars(a, b) ==
    IF Len(a) = 0 \/ Len(b) = 0 THEN 0
    ELSE LET m == LongestMatch(a, b)
         IN  IF m.size = 0 THEN 0
             ELSE m.size
                  + MatchingChars(SubSeq(a, 1, m.i - 1), SubSeq(b, 1, m.j - 1))
                  + MatchingChars(SubSeq(a, m.i + m.size, Len(a)),
                                  SubSeq(b, m.j + m.size, Len(b)))

RECURSIVE GCD(_, _)
GCD(x, y) == IF y = 0 THEN x ELSE GCD(y, x % y)

\* the fraction n/d (d > 0) in lowest terms
Fraction(n, d) == LET g == GCD(n, d) IN [n |-> n \div g, d |-> d \div g]

\* an int as a score
Whole(i) == [n |-> i, d |-> 1]

\* x < y and x <= y on fractions
FracLess(x, y) == x.n * y.d < y.n * x.d
FracLeq(x, y) == x.n * y.d <= y.n * x.d

\* i * x for an int i and a fraction x
FracScale(i, x) == Fraction(i * x.n, x.d)

\* x * y on fractions
FracTimes(x, y) == Fraction(x.n * y.n, x.d * y.d)

\* SequenceMatcher(None, a, b).ratio() * 100 = 2.0 * matches / length * 100
\* (1.0 * 100 when both are empty)
SequenceRatio100(a, b) ==
    IF Len(a) + Len(b) = 0 THEN Whole(100)
    ELSE Fraction(200 * MatchingChars(a, b), Len(a) + Len(b))

\* int(round(x)) of a fraction x >= 0: Python rounds halves to the even side
RoundHalfEven(x) ==
    LET q == x.n \div x.d
        r == x.n % x.d
    IN  IF 2 * r > x.d THEN q + 1
        ELSE IF 2 * r < x.d THEN q
        ELSE IF q % 2 = 0 THEN q ELSE q + 1

\* how a character compares in sorted(): its code point order among the
\* characters full_process leaves (space, digits, lower case letters)
CharOrder(c) == IndexOf(c, " " \o DigitAlphabet \o "_" \o LowerAlphabet)

RECURSIVE StrLess(_, _)
\* a < b on str
StrLess(a, b) ==
    IF Len(b) = 0 THEN FALSE
    ELSE IF Len(a) = 0 THEN TRUE
    ELSE IF Char(a, 1) # Char(b, 1) THEN CharOrder(Char(a, 1)) < CharOrder(Char(b, 1))
    ELSE StrLess(Tail(a), Tail(b))

RECURSIVE Sorted(_)
\* sorted(tokens): insertion of the head into the sorted tail
Sorted(tokens) ==
    IF Len(tokens) = 0 THEN << >>
    ELSE LET rest   == Sorted(Tail(tokens))
             t      == Head(tokens)
             before == SelectSeq(rest, LAMBDA u : StrLess(u, t))
             after  == SelectSeq(rest, LAMBDA u : ~StrLess(u, t))
         IN  before \o <<t>> \o after

RECURSIVE Join(_)
\* " ".join(tokens)
Join(tokens) ==
    IF Len(tokens) = 0 THEN ""
    ELSE IF Len(tokens) = 1 THEN Head(tokens)
    ELSE Head(tokens) \o " " \o Join(Tail(tokens))

RECURSIVE BlankNonWords(_)
\* re.sub(r'\W', ' ', s)
BlankNonWords(s) ==
    IF Len(s) = 0 THEN ""
    ELSE (IF IsWordChar(Char(s, 1)) THEN Char(s, 1) ELSE " ")
         \o BlankNonWords(Tail(s))

\* fuzzywuzzy utils.full_process
full_process(s) == Strip(Lower(BlankNonWords(s)))

\* fuzzywuzzy fuzz._process_and_sort: the words of the processed string,
\* sorted and joined by single spaces
process_and_sort(s) == Join(Sorted(FindWords(full_process(s))))

\* fuzz.token_sort_ratio(a, b), SequenceMatcher being difflib's
token_sort_ratio(a, b) ==
    RoundHalfEven(SequenceRatio100(process_and_sort(a), process_and_sort(b)))

----------------------------------------------------------------------------
(* dict: a sequence of <<key, value>> pairs in insertion order.            *)

DictKeys(d) == {d[i][1] : i \in DOMAIN d}

DictHas(d, k) == k \in DictKeys(d)

\* d.get(k, default)
DictGet(d, k, default) ==
    IF DictHas(d, k) THEN d[CHOOSE i \in DOMAIN d : d[i][1] = k][2] ELSE default

\* d[k] = v: a key already present keeps its place
DictPut(d, k, v) ==
    IF DictHas(d, k)
    THEN [i \in DOMAIN d |-> IF d[i][1] = k THEN <<k, v>> ELSE d[i]]
    ELSE Append(d, <<k, v>>)

\* the dict {} returned where no detail record is known
EmptyDict == [k \in {} |-> ""]

----------------------------------------------------------------------------
(* The inputs: rows of an uploaded reference table (ANSE CHASTANET STOCK   *)
(* format) and the descriptions of sales rows.                            *)

Row(description, hs_code, origin, product, c_nbr) ==
    [Description |-> description, HS_Code |-> hs_code, Origin |-> origin,
     Office |-> "LCVGC", Product |-> product, C_Nbr |-> c_nbr,
     Line |-> "2", Year |-> "2024"]

ReferenceRows ==
    { Row("Silk Scarf ", "62141000", "IT", "", "77"),
      Row("SCARF OF SILK", "62141000", "FR", "", "1234"),
      Row("SILK AND WOOL SCARF", "62142000", "", "", "1234"),
      Row("LADIES STRAW HAT", "65050000", "CO", "p100", "1234"),
      Row("GOLD COIN", "7118000000", "US", "", "") }

\* the rows of the reference files a FieldMapper is given
MapperReferenceRows ==
    { Row("LADIES STRAW HAT", "65050000", "CO", "p100", "1234"),
      Row("GOLD COIN", "7118000000", " ", "", ""),
      Row("  ", "62141000", "US", "", "77") }

RECURSIVE SeqsUpTo(_, _)
\* the sequences over S of length at most n
SeqsUpTo(S, n) ==
    IF n = 0 THEN {<< >>}
    ELSE LET shorter == SeqsUpTo(S, n - 1)
         IN  shorter \cup {Append(q, x) : q \in shorter, x \in S}

SalesDescriptions ==
    { "", "  ", "LADIES STRAW HAT", "LADIES STRAW HATS", "COSMETIC BAG",
      "silk scarf", "BLUE SILK SCARF", "WOOL SCARF", "BOX OF SILK",
      "SILK BLOUSE", "GOLD COIN", "p100" }

\* a cell of a sales table is a number, NaN or a text
Number(x) == [kind |-> "number", value |-> x]
NaN == [kind |-> "nan"]
Text(t) == [kind |-> "str", value |-> t]

\* a row of the sales table: the columns 'ITEM SOLD ', 'BAR CODE', 'DF US$'
\* (cents) and 'number'
SalesRow(item_sold, bar_code, df_us, number) ==
    [ITEM_SOLD |-> item_sold, BAR_CODE |-> bar_code, DF_US |-> df_us,
     number |-> number]

SalesRows ==
    { SalesRow(Text("LADIES STRAW HAT"), NaN, Number(2500), Number(Whole(1))),
      SalesRow(Text(" Scrunchie "), Text("p100"), Number(500), NaN),
      SalesRow(NaN, NaN, Number(100), Number(Whole(1))),
      SalesRow(Text("silk scarf"), NaN, Text("n/a"), Number(Whole(2))),
      SalesRow(Text("GOLD COIN"), NaN, Number(1000), Number(Fraction(1, 2))) }

\* the values of the "Fuzzy Matching Threshold" slider that are tried
ThresholdChoices == {60, 80, 95}

----------------------------------------------------------------------------
(* FuzzyMatcher.                                                           *)

VARIABLES
    reference_rows,      \* the rows handed to load_reference_data so far
    description_to_hs,   \* FuzzyMatcher.description_to_hs
    hs_to_details,       \* FuzzyMatcher.hs_to_details
    keyword_mappings,    \* FuzzyMatcher.keyword_mappings
    default_weights,     \* WeightEstimator.default_weights
    keyword_weights,     \* WeightEstimator.keyword_weights
    product_to_document,      \* DocumentReferenceMapper.product_to_document
    description_to_document,  \* DocumentReferenceMapper.description_to_document
    call,                \* the call whose result the caller holds, if any
    scorer_values,       \* the values of the two similarity scorers
    declaration,         \* a Declaration: its items and total_packages
    result_pair,         \* two ValidationResult objects
    scheduled_task,      \* a ScheduledTask: status, error, last_run
    task_run,            \* where ScheduledTask.run stands
    directories,         \* the sales files in the sales and archive directory
    tasks,               \* ScheduleManager.tasks
    jobs                 \* the jobs of the schedule module, in order

\* FuzzyMatcher._initialize_keyword_mappings
KeywordTable ==
    << <<"HAT", "65040000">>, <<"CAP", "65040000">>, <<"VISOR", "65040000">>,
       <<"SHIRT", "62053000">>, <<"POLO", "62053000">>, <<"PANT", "62034990">>,
       <<"SHORT", "62034990">>, <<"BERMUDA", "62034990">>,
       <<"SWIMSUIT", "62111200">>, <<"BIKINI", "62111200">>,
       <<"BATHING", "62111200">>, <<"BAG", "42022900">>,
       <<"CROSSBODY", "42022900">>, <<"SHOULDER BAG", "42022900">>,
       <<"CLUTCH", "42022900">>, <<"COSMETIC BAG", "42023210">>,
       <<"SANDAL", "64052000">>, <<"BRACELET", "71179000">>,
       <<"NECKLACE", "71179000">>, <<"EARRING", "71179000">>,
       <<"RING", "71179000">>, <<"SCRUNCHIE", "96159000">>,
       <<"SARONG", "62114300">>, <<"PAREO", "62114300">>,
       <<"DRESS", "62044900">>, <<"TUNIC", "62064000">>, <<"TOP", "62064000">>,
       <<"BOTTOM", "62089290">>, <<"RASHGUARD", "62111200">> >>

\* the key a reference description is stored under
ReferenceKey(text) == Upper(Strip(text))

\* the code a reference row's HS code is stored as
StoredCode(text) == Replace(Strip(text), "000000", "")

\* one iteration of the loop of load_reference_data: tables is
\* [description_to_hs, hs_to_details]
LoadRow(tables, row) ==
    LET description  == ReferenceKey(row.Description)
        hs_code      == StoredCode(row.HS_Code)
        product_code == Strip(row.Product)
        details      == [description |-> description, hs_code |-> hs_code,
                         origin |-> Strip(row.Origin), office |-> Strip(row.Office),
                         product_code |-> product_code, c_nbr |-> Strip(row.C_Nbr),
                         line |-> Strip(row.Line)]
        with_desc    == DictPut(tables.description_to_hs, description, hs_code)
    IN  IF description = "" \/ hs_code = "" THEN tables
        ELSE [description_to_hs |->
                 IF product_code # ""
                 THEN DictPut(with_desc, Upper(product_code), hs_code)
                 ELSE with_desc,
              hs_to_details |-> DictPut(tables.hs_to_details, hs_code, details)]

RECURSIVE LoadRows(_, _)
\* the loop of load_reference_data over the rows of the table
LoadRows(tables, rows) ==
    IF Len(rows) = 0 THEN tables
    ELSE LoadRows(LoadRow(tables, Head(rows)), Tail(rows))

\* FuzzyMatcher.exact_match
exact_match(d2h, description) ==
    IF description = "" THEN NoneValue
    ELSE DictGet(d2h, Upper(Strip(description)), NoneValue)

\* keyword_match as it would be if the longest keyword occurring in the text
\* won instead of the first in table order (C2 must tell the two apart)
LongestKeyword(keywords, text) ==
    LET hits == {i \in DOMAIN keywords : Contains(keywords[i][1], text)}
    IN  IF hits = {} THEN NoneValue
        ELSE keywords[CHOOSE i \in hits :
                         \A j \in hits :
                             Len(keywords[j][1]) <= Len(keywords[i][1])][2]

RECURSIVE FirstKeyword(_, _)
\* the loop of keyword_match: the code of the first keyword of the table,
\* in table order, that occurs in the text
FirstKeyword(keywords, text) ==
    IF Len(keywords) = 0 THEN NoneValue
    ELSE IF Contains(Head(keywords)[1], text) THEN Head(keywords)[2]
    ELSE FirstKeyword(Tail(keywords), text)

\* keyword_match reading the table that _initialize_keyword_mappings sets,
\* whatever the matcher holds
keyword_match_fixed_table(keywords, description) ==
    IF description = "" THEN NoneValue
    ELSE FirstKeyword(KeywordTable, Upper(Strip(description)))

\* FuzzyMatcher.keyword_match
keyword_match(keywords, description) ==
    IF description = "" THEN NoneValue
    ELSE FirstKeyword(keywords, Upper(Strip(description)))

\* the keys description_to_hs can hold, and the texts matched against them
PossibleKeys ==
    ({ReferenceKey(r.Description) : r \in ReferenceRows \cup MapperReferenceRows}
        \cup {Upper(Strip(r.Product)) : r \in ReferenceRows \cup MapperReferenceRows})
        \ {""}
QueryTexts ==
    {Upper(Strip(d)) : d \in SalesDescriptions}
        \cup {Upper(Strip(r.ITEM_SOLD.value)) :
                 r \in {x \in SalesRows : x.ITEM_SOLD.kind = "str"}}

\* the values of the two scorers on these texts, which scorer_values holds
\* from the start:
\* <<query, key, fuzz.token_sort_ratio, SequenceMatcher ratio * 100>>
ScoreTable ==
    {<<q, k, token_sort_ratio(q, k), SequenceRatio100(q, k)>> :
        q \in QueryTexts, k \in PossibleKeys}

Scores(query, key) == CHOOSE t \in scorer_values : t[1] = query /\ t[2] = key

RECURSIVE ExtractOne(_, _, _)
\* fuzzywuzzy process.extractOne(query, keys, scorer=fuzz.token_sort_ratio):
\* the <<key, score>> of the best score, the first of them in key order;
\* best is the best pair so far, << >> before the first key
ExtractOne(query, entries, best) ==
    IF Len(entries) = 0 THEN best
    ELSE LET key   == Head(entries)[1]
             score == Scores(query, key)[3]
         IN  ExtractOne(query, Tail(entries),
                        IF best = << >> \/ score > best[2]
                        THEN <<key, score>> ELSE best)

RECURSIVE FallbackBestNoThreshold(_, _, _, _)
\* the loop of the except branch as it would be without "score >= threshold"
\* (C4 must tell the two apart)
FallbackBestNoThreshold(description, entries, threshold, best) ==
    IF Len(entries) = 0 THEN best
    ELSE LET ref_desc == Head(entries)[1]
             score    == Scores(description, ref_desc)[4]
         IN  FallbackBestNoThreshold(description, Tail(entries), threshold,
                                     IF FracLess(best[2], score)
                                     THEN <<ref_desc, score>> ELSE best)

RECURSIVE FallbackBest(_, _, _, _)
\* the loop of the except branch of fuzzy_match over description_to_hs.keys():
\* best is <<best_match, best_score>>, <<NoneValue, Whole(0)>> at the start
FallbackBest(description, entries, threshold, best) ==
    IF Len(entries) = 0 THEN best
    ELSE LET ref_desc == Head(entries)[1]
             score    == Scores(description, ref_desc)[4]
         IN  FallbackBest(description, Tail(entries), threshold,
                          IF FracLess(best[2], score) /\ FracLeq(Whole(threshold), score)
                          THEN <<ref_desc, score>> ELSE best)

\* FuzzyMatcher.fuzzy_match; raises says that process.extractOne raised, so
\* that the except branch ran.  The result is << >> (None) or <<code, score>>
fuzzy_match(d2h, description, threshold, raises) ==
    IF description = "" \/ Len(d2h) = 0 THEN << >>
    ELSE LET text == Upper(Strip(description))
         IN  IF ~raises
             THEN LET one == ExtractOne(text, d2h, << >>)
                  IN  IF one[2] >= threshold
                      THEN <<DictGet(d2h, one[1], NoneValue), Whole(one[2])>>
                      ELSE << >>
             ELSE LET best == FallbackBest(text, d2h, threshold,
                                           <<NoneValue, Whole(0)>>)
                  IN  IF best[1] # NoneValue
                      THEN <<DictGet(d2h, best[1], NoneValue), best[2]>>
                      ELSE << >>

\* stop_words of token_match
StopWords == {"AND", "WITH", "THE", "OF", "IN", "FOR", "TO", "A", "AN"}

\* set(re.findall(r'\b\w+\b', text)) - stop_words
TokenSet(text) == Range(FindWords(text)) \ StopWords

RECURSIVE TokenBestLast(_, _, _, _)
\* the loop of token_match as it would be with "common >= best_count", which
\* keeps the last of the entries that tie (C6 must tell the two apart)
TokenBestLast(tokens, entries, threshold, best) ==
    IF Len(entries) = 0 THEN best
    ELSE LET common == Cardinality(tokens \cap TokenSet(Head(entries)[1]))
         IN  TokenBestLast(tokens, Tail(entries), threshold,
                           IF common >= best[2] /\ common >= threshold
                           THEN <<Head(entries)[2], common>> ELSE best)

RECURSIVE TokenBest(_, _, _, _)
\* the loop of token_match over description_to_hs.items(): best is
\* <<best_match, best_count>>, <<NoneValue, 0>> at the start
TokenBest(tokens, entries, threshold, best) ==
    IF Len(entries) = 0 THEN best
    ELSE LET common == Cardinality(tokens \cap TokenSet(Head(entries)[1]))
         IN  TokenBest(tokens, Tail(entries), threshold,
                       IF common > best[2] /\ common >= threshold
                       THEN <<Head(entries)[2], common>> ELSE best)

\* FuzzyMatcher.token_match
token_match(d2h, description, threshold) ==
    IF description = "" \/ Len(d2h) = 0 THEN NoneValue
    ELSE TokenBest(TokenSet(Upper(Strip(description))), d2h, threshold,
                   <<NoneValue, 0>>)[1]

\* the category keywords of _get_default_hs_code, in the order of its tests
DefaultCategories ==
    << <<{"SHIRT", "BLOUSE", "TOP", "TUNIC"}, "62053000">>,
       <<{"PANT", "SHORT", "TROUSER"}, "62034990">>,
       <<{"HAT", "CAP", "VISOR"}, "65040000">>,
       <<{"BAG", "PURSE", "CLUTCH", "CROSSBODY"}, "42022900">>,
       <<{"SANDAL", "SHOE", "FOOTWEAR"}, "64052000">>,
       <<{"BRACELET", "NECKLACE", "EARRING", "RING", "JEWELRY"}, "71179000">>,
       <<{"SWIMSUIT", "BIKINI", "SWIM"}, "62111200">> >>

\* the code returned when nothing else applies
HardDefaultCode == "71179000"

RECURSIVE FirstCategoryNoDefault(_, _)
\* the if / elif chain as it would be without its final "return '71179000'"
\* (C7 must tell the two apart)
FirstCategoryNoDefault(categories, text) ==
    IF Len(categories) = 0 THEN NoneValue
    ELSE IF \E word \in Head(categories)[1] : Contains(word, text)
         THEN Head(categories)[2]
         ELSE FirstCategoryNoDefault(Tail(categories), text)

RECURSIVE FirstCategory(_, _)
\* the if / elif chain of _get_default_hs_code
FirstCategory(categories, text) ==
    IF Len(categories) = 0 THEN HardDefaultCode
    ELSE IF \E word \in Head(categories)[1] : Contains(word, text)
         THEN Head(categories)[2]
         ELSE FirstCategory(Tail(categories), text)

\* FuzzyMatcher._get_default_hs_code
get_default_hs_code(description) == FirstCategory(DefaultCategories, Upper(description))

\* the default of the threshold parameter of fuzzy_match
DefaultFuzzyThreshold == 80

\* the default of the threshold parameter of token_match
DefaultTokenThreshold == 2

Match(hs_code, method, confidence, details) ==
    [hs_code |-> hs_code, method |-> method, confidence |-> confidence,
     details |-> details]

\* get_best_match as it would be with the fuzzy stage tried before the
\* keyword stage (C3 must tell the two apart)
get_best_match_fuzzy_first(d2h, h2d, keywords, description, raises) ==
    IF description = ""
    THEN Match(HardDefaultCode, "default", Whole(0), EmptyDict)
    ELSE LET text    == Strip(description)
             exact   == exact_match(d2h, text)
             keyword == keyword_match(keywords, text)
             fuzzy   == fuzzy_match(d2h, text, DefaultFuzzyThreshold, raises)
             token   == token_match(d2h, text, DefaultTokenThreshold)
         IN  IF exact # NoneValue
             THEN Match(exact, "exact", Whole(100), DictGet(h2d, exact, EmptyDict))
             ELSE IF fuzzy # << >>
             THEN Match(fuzzy[1], "fuzzy", fuzzy[2],
                        DictGet(h2d, fuzzy[1], EmptyDict))
             ELSE IF keyword # NoneValue
             THEN Match(keyword, "keyword", Whole(90),
                        DictGet(h2d, keyword, EmptyDict))
             ELSE IF token # NoneValue
             THEN Match(token, "token", Whole(60), DictGet(h2d, token, EmptyDict))
             ELSE Match(get_default_hs_code(text), "default", Whole(30), EmptyDict)

\* FuzzyMatcher.get_best_match on a matcher with the tables d2h
\* (description_to_hs), h2d (hs_to_details) and keywords (keyword_mappings)
get_best_match(d2h, h2d, keywords, description, raises) ==
    IF description = ""
    THEN Match(HardDefaultCode, "default", Whole(0), EmptyDict)
    ELSE LET text    == Strip(description)
             exact   == exact_match(d2h, text)
             keyword == keyword_match(keywords, text)
             fuzzy   == fuzzy_match(d2h, text, DefaultFuzzyThreshold, raises)
             token   == token_match(d2h, text, DefaultTokenThreshold)
         IN  IF exact # NoneValue
             THEN Match(exact, "exact", Whole(100), DictGet(h2d, exact, EmptyDict))
             ELSE IF keyword # NoneValue
             THEN Match(keyword, "keyword", Whole(90),
                        DictGet(h2d, keyword, EmptyDict))
             ELSE IF fuzzy # << >>
             THEN Match(fuzzy[1], "fuzzy", fuzzy[2],
                        DictGet(h2d, fuzzy[1], EmptyDict))
             ELSE IF token # NoneValue
             THEN Match(token, "token", Whole(60), DictGet(h2d, token, EmptyDict))
             ELSE Match(get_default_hs_code(text), "default", Whole(30), EmptyDict)

----------------------------------------------------------------------------
(* WeightEstimator.                                                        *)

\* default_weights as WeightEstimator.__init__ sets it
DefaultWeights ==
    << <<"6205", <<300, 250>> >>, <<"6206", <<200, 150>> >>,
       <<"6203", <<500, 450>> >>, <<"6204", <<400, 350>> >>,
       <<"6211", <<300, 250>> >>, <<"6208", <<100, 80>> >>,
       <<"6504", <<200, 150>> >>, <<"4202", <<500, 450>> >>,
       <<"6402", <<600, 500>> >>, <<"6405", <<500, 400>> >>,
       <<"7117", <<50, 30>> >>, <<"default", <<300, 250>> >> >>

\* keyword_weights as WeightEstimator.__init__ sets it
KeywordWeights ==
    << <<"SHIRT", <<300, 250>> >>, <<"BLOUSE", <<200, 150>> >>,
       <<"PANT", <<500, 450>> >>, <<"SHORT", <<300, 250>> >>,
       <<"DRESS", <<400, 350>> >>, <<"SWIMSUIT", <<300, 250>> >>,
       <<"BIKINI", <<200, 150>> >>, <<"HAT", <<200, 150>> >>,
       <<"CAP", <<200, 150>> >>, <<"VISOR", <<150, 100>> >>,
       <<"BAG", <<500, 450>> >>, <<"CROSSBODY", <<400, 350>> >>,
       <<"CLUTCH", <<300, 250>> >>, <<"SANDAL", <<500, 400>> >>,
       <<"SHOE", <<600, 500>> >>, <<"BRACELET", <<50, 30>> >>,
       <<"NECKLACE", <<50, 30>> >>, <<"EARRING", <<20, 10>> >>,
       <<"RING", <<20, 10>> >>, <<"SCRUNCHIE", <<50, 30>> >>,
       <<"SARONG", <<300, 250>> >>, <<"PAREO", <<300, 250>> >>,
       <<"TUNIC", <<300, 250>> >>, <<"TOP", <<200, 150>> >>,
       <<"BOTTOM", <<300, 250>> >>, <<"RASHGUARD", <<300, 250>> >> >>

RECURSIVE FirstPrefixed(_, _)
\* the inner loop of estimate_by_hs_code: the weights of the first mapping,
\* in table order, whose key starts with the prefix
FirstPrefixed(weights, prefix) ==
    IF Len(weights) = 0 THEN NoneValue
    ELSE IF StartsWith(Head(weights)[1], prefix) THEN Head(weights)[2]
    ELSE FirstPrefixed(Tail(weights), prefix)

\* WeightEstimator.estimate_by_hs_code
estimate_by_hs_code(weights, hs_code) ==
    LET four == IF Len(hs_code) >= 4
                THEN FirstPrefixed(weights, Prefix(hs_code, 4)) ELSE NoneValue
        two  == IF Len(hs_code) >= 2
                THEN FirstPrefixed(weights, Prefix(hs_code, 2)) ELSE NoneValue
    IN  IF hs_code = "" THEN DictGet(weights, "default", NoneValue)
        ELSE IF four # NoneValue THEN four
        ELSE IF two # NoneValue THEN two
        ELSE DictGet(weights, "default", NoneValue)

RECURSIVE FirstWeightKeyword(_, _)
\* the loop of estimate_by_description
FirstWeightKeyword(keywords, text) ==
    IF Len(keywords) = 0 THEN NoneValue
    ELSE IF Contains(Head(keywords)[1], text) THEN Head(keywords)[2]
    ELSE FirstWeightKeyword(Tail(keywords), text)

\* WeightEstimator.estimate_by_description
estimate_by_description(weights, keywords, description) ==
    LET hit == FirstWeightKeyword(keywords, Upper(description))
    IN  IF description = "" \/ hit = NoneValue
        THEN DictGet(weights, "default", NoneValue)
        ELSE hit

\* estimate_weights as it would be if the quantity were added to the unit
\* weights instead of multiplying them (C10 must tell the two apart)
estimate_weights_added(weights, keywords, hs_code, description, quantity) ==
    LET unit == IF hs_code # "" THEN estimate_by_hs_code(weights, hs_code)
                ELSE IF description # ""
                THEN estimate_by_description(weights, keywords, description)
                ELSE DictGet(weights, "default", NoneValue)
    IN  [gross |-> Fraction(unit[1] * quantity.d + quantity.n, quantity.d),
         net   |-> Fraction(unit[2] * quantity.d + quantity.n, quantity.d)]

\* WeightEstimator.estimate_weights; an argument that is None or '' is ""
estimate_weights(weights, keywords, hs_code, description, quantity) ==
    LET unit == IF hs_code # "" THEN estimate_by_hs_code(weights, hs_code)
                ELSE IF description # ""
                THEN estimate_by_description(weights, keywords, description)
                ELSE DictGet(weights, "default", NoneValue)
    IN  [gross |-> FracScale(unit[1], quantity),
         net   |-> FracScale(unit[2], quantity)]

\* the arguments the estimator is called with
WeightPrefixes == {"9615", "6504"}
WeightKeywords == {"scrunchie", "COIN"}
WeightValues == {<<100, 80>>, <<40, 60>>}
EstimateCodes == {"", "65040000", "62999999", "96159000", "7"}
EstimateDescriptions == {"", "Scrunchie", "LADIES STRAW HAT", "GOLD COIN"}
Quantities == {Whole(0), Whole(1), Whole(3), Fraction(1, 2)}

----------------------------------------------------------------------------
(* DocumentReferenceMapper.                                                *)

\* hs_to_office as DocumentReferenceMapper.__init__ sets it
HsToOffice ==
    << <<"42", "LCCAP">>, <<"62", "LCVGC">>, <<"64", "LCVFP">>,
       <<"65", "LCCAP">>, <<"71", "LCCAP">> >>

RECURSIVE NatToStr(_)
\* str(n), as an f-string formats a natural number
NatToStr(n) ==
    IF n < 10 THEN Char(DigitAlphabet, n + 1)
    ELSE NatToStr(n \div 10) \o Char(DigitAlphabet, (n % 10) + 1)

\* one iteration of the loop of load_from_anse_chastanet_format: maps is
\* [product_to_document, description_to_document]
LoadDocumentRow(maps, row) ==
    LET product_code == Strip(row.Product)
        description  == Strip(row.Description)
        c_nbr        == Strip(row.C_Nbr)
        office       == Strip(row.Office)
        year         == Strip(row.Year)
        line         == Strip(row.Line)
        document_ref == office \o " " \o year \o " C " \o c_nbr
                            \o (IF line # "" THEN " art. " \o line ELSE "")
    IN  IF c_nbr = "" \/ office = "" \/ year = "" THEN maps
        ELSE [product_to_document |->
                 IF product_code # ""
                 THEN DictPut(maps.product_to_document, Upper(product_code),
                              document_ref)
                 ELSE maps.product_to_document,
              description_to_document |->
                 IF description # ""
                 THEN DictPut(maps.description_to_document, Upper(description),
                              document_ref)
                 ELSE maps.description_to_document]

RECURSIVE LoadDocumentRows(_, _)
\* the loop of load_from_anse_chastanet_format
LoadDocumentRows(maps, rows) ==
    IF Len(rows) = 0 THEN maps
    ELSE LoadDocumentRows(LoadDocumentRow(maps, Head(rows)), Tail(rows))

\* DocumentReferenceMapper._generate_default_reference; current_year is
\* datetime.now().year
generate_default_reference(hs_code, current_year) ==
    LET office     == IF Len(hs_code) >= 2
                      THEN DictGet(HsToOffice, Prefix(hs_code, 2), "LCCAP")
                      ELSE "LCCAP"
        ref_number == IF Len(hs_code) >= 6 THEN Suffix(hs_code, 4) ELSE "10000"
        article    == IF Len(hs_code) >= 4 THEN Suffix(hs_code, 2) ELSE "1"
    IN  office \o " " \o NatToStr(current_year) \o " C " \o ref_number
            \o " art. " \o article

RECURSIVE FirstPartial(_, _)
\* the loop of get_document_reference over description_to_document.items()
FirstPartial(entries, text) ==
    IF Len(entries) = 0 THEN NoneValue
    ELSE IF Contains(Head(entries)[1], text) \/ Contains(text, Head(entries)[1])
         THEN Head(entries)[2]
         ELSE FirstPartial(Tail(entries), text)

\* get_document_reference looking the description up before the product code
get_document_reference_description_first(p2d, d2d, product_code, description, hs_code, current_year) ==
    LET partial == FirstPartial(d2d, Upper(description))
    IN  IF description # "" /\ DictHas(d2d, Upper(description))
        THEN DictGet(d2d, Upper(description), NoneValue)
        ELSE IF product_code # "" /\ DictHas(p2d, Upper(product_code))
        THEN DictGet(p2d, Upper(product_code), NoneValue)
        ELSE IF description # "" /\ partial # NoneValue THEN partial
        ELSE IF hs_code # "" THEN generate_default_reference(hs_code, current_year)
        ELSE "LCCAP 2025 C 10000 art. 1"

\* DocumentReferenceMapper.get_document_reference; an argument that is None
\* or '' is ""
get_document_reference(p2d, d2d, product_code, description, hs_code, current_year) ==
    LET partial == FirstPartial(d2d, Upper(description))
    IN  IF product_code # "" /\ DictHas(p2d, Upper(product_code))
        THEN DictGet(p2d, Upper(product_code), NoneValue)
        ELSE IF description # "" /\ DictHas(d2d, Upper(description))
        THEN DictGet(d2d, Upper(description), NoneValue)
        ELSE IF description # "" /\ partial # NoneValue THEN partial
        ELSE IF hs_code # "" THEN generate_default_reference(hs_code, current_year)
        ELSE "LCCAP 2025 C 10000 art. 1"

----------------------------------------------------------------------------
(* FieldMapper.                                                            *)

\* the years datetime.now().year takes
Years == {2025, 2026}

\* int(x) of a float: truncation towards zero
IntTrunc(x) == IF x.n >= 0 THEN x.n \div x.d ELSE -((-x.n) \div x.d)

\* FieldMapper.defaults
Defaults ==
    [statistical_unit |-> "NMB", package_type |-> "PE",
     marks_and_numbers |-> "NO MARKS", country_of_origin |-> "US"]

\* add_item without the running total
add_item_uncounted(decl, item) ==
    LET numbered == IF item.item_number <= 0
                    THEN [item EXCEPT !.item_number = Len(decl.items) + 1]
                    ELSE item
    IN  [decl EXCEPT !.items = Append(@, numbered)]

\* Declaration.add_item
add_item(decl, item) ==
    LET numbered == IF item.item_number <= 0
                    THEN [item EXCEPT !.item_number = Len(decl.items) + 1]
                    ELSE item
    IN  [decl EXCEPT
             !.items = Append(@, numbered),
             !.total_packages = @ + numbered.package_count]

\* the body of the loop of map_sales_to_declaration for the row at index idx:
\* run is [declaration, log], where log holds what the loop logs per row
MapRow(mapper, run, idx, row, raises, current_year) ==
    IF row.ITEM_SOLD.kind = "nan" \/ row.DF_US.kind = "nan"
    THEN [run EXCEPT !.log = Append(@, [row |-> idx, event |-> "skipped"])]
    ELSE IF row.DF_US.kind = "str"
    THEN \* float() of a text that is no number raises ValueError
         [run EXCEPT !.log = Append(@, [row |-> idx, event |-> "error"])]
    ELSE LET description == Strip(row.ITEM_SOLD.value)
             bar_code    == IF row.BAR_CODE.kind = "nan" THEN ""
                            ELSE Strip(row.BAR_CODE.value)
             value       == row.DF_US.value
             quantity    == IF row.number.kind = "nan" THEN Whole(1)
                            ELSE row.number.value
             hs_match    == get_best_match(mapper.description_to_hs,
                                           mapper.hs_to_details,
                                           mapper.keyword_mappings,
                                           description, raises)
             hs_code     == hs_match.hs_code
             origin      == IF "origin" \in DOMAIN hs_match.details
                            THEN hs_match.details.origin
                            ELSE Defaults.country_of_origin
             weights     == estimate_weights(mapper.default_weights,
                                             mapper.keyword_weights,
                                             hs_code, description, quantity)
             prev_doc    == get_document_reference(mapper.product_to_document,
                                                   mapper.description_to_document,
                                                   bar_code, description, hs_code,
                                                   current_year)
             item        == [item_number |-> idx + 1,
                             hs_code |-> hs_code,
                             description |-> description,
                             country_of_origin |-> origin,
                             gross_weight |-> weights.gross,
                             net_weight |-> weights.net,
                             statistical_unit |-> Defaults.statistical_unit,
                             quantity |-> quantity,
                             customs_value |-> value,
                             package_type |-> Defaults.package_type,
                             package_count |-> IntTrunc(quantity),
                             marks_and_numbers |-> Defaults.marks_and_numbers,
                             previous_document |-> prev_doc]
         IN  [declaration |-> add_item(run.declaration, item),
              log |-> Append(run.log,
                             [row |-> idx, event |-> "match",
                              hs_code |-> hs_code, origin |-> origin,
                              method |-> hs_match.method,
                              confidence |-> hs_match.confidence])]

RECURSIVE MapRowsAbort(_, _, _, _, _, _)
\* the loop of map_sales_to_declaration with the try around the loop: the
\* first row that raises ends it
MapRowsAbort(mapper, run, idx, sales, raises, current_year) ==
    IF idx >= Len(sales) THEN run
    ELSE LET next == MapRow(mapper, run, idx, sales[idx + 1], raises,
                            current_year)
         IN  IF next.log[Len(next.log)].event = "error" THEN next
             ELSE MapRowsAbort(mapper, next, idx + 1, sales, raises,
                               current_year)

RECURSIVE MapRows(_, _, _, _, _, _)
\* the loop of map_sales_to_declaration over sales_df.iterrows(), from the
\* row at index idx on
MapRows(mapper, run, idx, sales, raises, current_year) ==
    IF idx >= Len(sales) THEN run
    ELSE MapRows(mapper,
                 MapRow(mapper, run, idx, sales[idx + 1], raises, current_year),
                 idx + 1, sales, raises, current_year)

\* FieldMapper.map_sales_to_declaration on a mapper with the tables of mapper
map_sales_to_declaration(mapper, sales, raises, current_year) ==
    MapRows(mapper,
            [declaration |-> [items |-> << >>, total_packages |-> 0],
             log |-> << >>],
            0, sales, raises, current_year)

----------------------------------------------------------------------------
(* Declaration and Item of the data model.                                 *)

\* Item(...) of the dataclass, the other fields at their defaults; weights
\* in grams, customs_value in cents
Item(item_number, hs_code, description, country_of_origin, gross_weight, net_weight, quantity, customs_value, package_count) ==
    [item_number |-> item_number, hs_code |-> hs_code,
     description |-> description, country_of_origin |-> country_of_origin,
     gross_weight |-> gross_weight, net_weight |-> net_weight,
     statistical_unit |-> "NMB", quantity |-> quantity,
     customs_value |-> customs_value, package_type |-> "PE",
     package_count |-> package_count, marks_and_numbers |-> "NO MARKS",
     previous_document |-> NoneValue]

\* Entity(id, name, address_line1, country=country)
Entity(id, name, address_line1, country) ==
    [id |-> id, name |-> name, address_line1 |-> address_line1,
     country |-> country]

\* Declaration(...) without items, the fields not named at the values
\* FieldMapper.defaults gives them
Declaration(registration_number, declaration_type, currency_code, exporter, declarant) ==
    [registration_number |-> registration_number,
     declaration_type |-> declaration_type, customs_office |-> "LCVFP",
     exporter |-> exporter, declarant |-> declarant,
     general_procedure_code |-> "3071", extended_procedure_code |-> "113",
     country_of_destination |-> "VC", mode_of_transport |-> "VC",
     office_of_entry_exit |-> "LCHB", currency_code |-> currency_code,
     exchange_rate |-> Whole(1), items |-> << >>, total_packages |-> 0]

\* the declarations that are created: a valid one, one with header errors,
\* one with entity errors, one with both
DeclarationPool ==
    LET shop   == Entity("E100", "ANSE CHASTANET", "SOUFRIERE", "LC")
        broker == Entity("D200", "BROKER LTD", "CASTRIES", "LC")
        nobody == Entity("", "NOBODY", "CASTRIES", "lc")
        noname == Entity("D200", "", "", "LC")
    IN  { Declaration("EX2025001", "EX3", "XCD", shop, broker),
          Declaration("", "EX9", "xcd", shop, broker),
          Declaration("EX2025001", "EX3", "XCD", nobody, noname),
          Declaration("ex-1", "", "XCD", nobody, noname) }

\* the items handed to add_item
ItemPool ==
    { Item(0, "65040000", "LADIES STRAW HAT", "US", Whole(200), Whole(150),
           Whole(1), 1000, 1),
      Item(0, "42022900", "COSMETIC BAG", "CO", Whole(1000), Whole(900),
           Whole(2), 2000, 2),
      Item(3, "96159000", "Scrunchie", "US", Fraction(301, 2), Whole(90),
           Whole(3), 500, 3),
      Item(1, "71179000", "GOLD RING", "IT", Whole(30), Whole(50),
           Whole(1), 0, 1),
      Item(2, "7118", "GOLD COIN", "", Whole(15), Whole(25),
           Fraction(1, 2), 1000, 0) }

\* x + y of two fractions
FracPlus(x, y) == Fraction(x.n * y.d + y.n * x.d, x.d * y.d)

\* calculate_totals counting every item as one package
calculate_totals_item_count(decl) ==
    LET items == decl.items
        packages[i \in 0..Len(items)] ==
            IF i = 0 THEN 0 ELSE packages[i - 1] + 1
        value[i \in 0..Len(items)] ==
            IF i = 0 THEN 0 ELSE value[i - 1] + items[i].customs_value
        gross[i \in 0..Len(items)] ==
            IF i = 0 THEN Whole(0)
            ELSE FracPlus(gross[i - 1], items[i].gross_weight)
        net[i \in 0..Len(items)] ==
            IF i = 0 THEN Whole(0)
            ELSE FracPlus(net[i - 1], items[i].net_weight)
    IN  [declaration |-> [decl EXCEPT !.total_packages = packages[Len(items)]],
         totals |-> [total_value |-> value[Len(items)],
                     total_gross_weight |-> gross[Len(items)],
                     total_net_weight |-> net[Len(items)],
                     total_packages |-> packages[Len(items)],
                     total_items |-> Len(items)]]

\* Declaration.calculate_totals: the declaration it leaves and the dict it
\* returns
calculate_totals(decl) ==
    LET items == decl.items
        packages[i \in 0..Len(items)] ==
            IF i = 0 THEN 0 ELSE packages[i - 1] + items[i].package_count
        value[i \in 0..Len(items)] ==
            IF i = 0 THEN 0 ELSE value[i - 1] + items[i].customs_value
        gross[i \in 0..Len(items)] ==
            IF i = 0 THEN Whole(0)
            ELSE FracPlus(gross[i - 1], items[i].gross_weight)
        net[i \in 0..Len(items)] ==
            IF i = 0 THEN Whole(0)
            ELSE FracPlus(net[i - 1], items[i].net_weight)
    IN  [declaration |-> [decl EXCEPT !.total_packages = packages[Len(items)]],
         totals |-> [total_value |-> value[Len(items)],
                     total_gross_weight |-> gross[Len(items)],
                     total_net_weight |-> net[Len(items)],
                     total_packages |-> packages[Len(items)],
                     total_items |-> Len(items)]]

----------------------------------------------------------------------------
(* Validation: Item.validate, FieldConstraints, FieldValidator and         *)
(* DeclarationValidator.                                                   *)

\* Item.validate: the message of the ValidationError it raises, None where
\* it returns True
Item_validate(item) ==
    LET Digits(t)  == \A i \in 1..Len(t) : IndexOf(Char(t, i), DigitAlphabet) > 0
        Letters(t) == \A i \in 1..Len(t) : IndexOf(Char(t, i), UpperAlphabet) > 0
    IN  IF ~(Len(item.hs_code) \in 6..10 /\ Digits(item.hs_code))
        THEN "Invalid HS Code format: " \o item.hs_code
        ELSE IF ~(Len(item.country_of_origin) = 2 /\ Letters(item.country_of_origin))
        THEN "Invalid country code: " \o item.country_of_origin
        ELSE IF FracLeq(item.gross_weight, Whole(0))
        THEN "Gross weight must be positive"
        ELSE IF FracLeq(item.net_weight, Whole(0))
        THEN "Net weight must be positive"
        ELSE IF FracLess(item.gross_weight, item.net_weight)
        THEN "Net weight cannot exceed gross weight"
        ELSE IF FracLeq(item.quantity, Whole(0))
        THEN "Quantity must be positive"
        ELSE IF item.package_count <= 0
        THEN "Package count must be positive"
        ELSE IF Len(item.description) < 3
        THEN "Description is required and must be meaningful"
        ELSE NoneValue

\* ValidationResult(): valid, without errors and warnings
ValidationResult == [is_valid |-> TRUE, errors |-> << >>, warnings |-> << >>]

\* add_error leaving the flag as it was
add_error_flag_kept(result, error) ==
    [result EXCEPT !.errors = Append(@, error)]

\* ValidationResult.add_error
add_error(result, error) ==
    [result EXCEPT !.errors = Append(@, error), !.is_valid = FALSE]

\* ValidationResult.add_warning
add_warning(result, warning) ==
    [result EXCEPT !.warnings = Append(@, warning)]

\* merge putting the messages of other before its own
merge_other_first(result, other) ==
    [is_valid |-> result.is_valid /\ other.is_valid,
     errors   |-> other.errors \o result.errors,
     warnings |-> other.warnings \o result.warnings]

\* ValidationResult.merge: result after result.merge(other)
merge(result, other) ==
    [is_valid |-> result.is_valid /\ other.is_valid,
     errors   |-> result.errors \o other.errors,
     warnings |-> result.warnings \o other.warnings]

\* MAX_LENGTHS, the same table in FieldConstraints and FieldValidator
MAX_LENGTHS ==
    << <<"registration_number", 20>>, <<"declaration_type", 3>>,
       <<"customs_office", 5>>, <<"exporter_id", 20>>, <<"exporter_name", 70>>,
       <<"declarant_id", 20>>, <<"declarant_name", 70>>,
       <<"general_procedure_code", 4>>, <<"extended_procedure_code", 3>>,
       <<"country_of_destination", 2>>, <<"mode_of_transport", 2>>,
       <<"office_of_entry_exit", 5>>, <<"currency_code", 3>>,
       <<"commercial_reference", 35>>, <<"hs_code", 10>>,
       <<"description", 280>>, <<"country_of_origin", 2>>,
       <<"package_type", 2>>, <<"marks_and_numbers", 140>>,
       <<"previous_document", 50>> >>

\* re.match(PATTERNS[pattern_name], value) for the patterns the validators
\* use (values hold no newline)
Matches(pattern_name, value) ==
    LET Digits(t)  == \A i \in 1..Len(t) : IndexOf(Char(t, i), DigitAlphabet) > 0
        Letters(t) == \A i \in 1..Len(t) : IndexOf(Char(t, i), UpperAlphabet) > 0
    IN  CASE pattern_name = "registration_number" ->
                 /\ Len(value) >= 1
                 /\ \A i \in 1..Len(value) :
                        \/ IndexOf(Char(value, i), UpperAlphabet) > 0
                        \/ IndexOf(Char(value, i), DigitAlphabet) > 0
          [] pattern_name = "declaration_type" -> value \in {"EX1", "EX2", "EX3"}
          [] pattern_name = "customs_office" ->
                 /\ Len(value) \in 4..5
                 /\ SubSeq(value, 1, 2) = "LC"
                 /\ Letters(SubSeq(value, 3, Len(value)))
          [] pattern_name = "general_procedure_code" ->
                 Len(value) = 4 /\ Digits(value)
          [] pattern_name = "extended_procedure_code" ->
                 Len(value) = 3 /\ Digits(value)
          [] pattern_name = "country_code" -> Len(value) = 2 /\ Letters(value)
          [] pattern_name = "currency_code" -> Len(value) = 3 /\ Letters(value)
          [] pattern_name = "hs_code" -> Len(value) \in 6..10 /\ Digits(value)

\* validate_length of FieldValidator; FieldConstraints.validate_length raises
\* the same message
validate_length(field_name, value) ==
    LET max_length == DictGet(MAX_LENGTHS, field_name, 0)
    IN  IF max_length # 0 /\ Len(value) > max_length
        THEN add_error(ValidationResult,
                       "Field '" \o field_name \o "' exceeds maximum length of "
                           \o NatToStr(max_length) \o " characters")
        ELSE ValidationResult

\* validate_pattern of FieldValidator; FieldConstraints.validate_pattern
\* raises the same message
validate_pattern(pattern_name, value) ==
    IF ~Matches(pattern_name, value)
    THEN add_error(ValidationResult,
                   "Value '" \o value \o "' does not match required pattern for "
                       \o pattern_name)
    ELSE ValidationResult

\* validate_numeric of FieldValidator for a number; FieldConstraints'
\* raises the same message
validate_numeric(field_name, value) ==
    IF value.n < 0
    THEN add_error(ValidationResult,
                   "Field '" \o field_name \o "' must be a positive number")
    ELSE ValidationResult

\* the results of a sequence of checks merged in order into a new
\* ValidationResult
MergeAll(results) ==
    LET acc[i \in 0..Len(results)] ==
            IF i = 0 THEN ValidationResult ELSE merge(acc[i - 1], results[i])
    IN  acc[Len(results)]

\* ', '.join(fields)
JoinFields(fields) ==
    LET acc[i \in 0..Len(fields)] ==
            IF i = 0 THEN ""
            ELSE IF i = 1 THEN fields[1]
            ELSE acc[i - 1] \o ", " \o fields[i]
    IN  acc[Len(fields)]

\* FieldConstraints.validate_item(item_data) for the dict of an Item: the
\* list of errors.  The numeric fields of an Item hold numbers, so only the
\* text fields can be missing.
validate_item(item_data) ==
    LET text_fields == <<"hs_code", "description", "country_of_origin",
                         "statistical_unit", "package_type">>
        missing == SelectSeq(text_fields, LAMBDA f : item_data[f] = "")
        required == IF missing # << >>
                    THEN <<"Missing required fields: " \o JoinFields(missing)>>
                    ELSE << >>
        fields ==
            MergeAll(<<
                validate_numeric("item_number", Whole(item_data.item_number)),
                validate_pattern("hs_code", item_data.hs_code),
                validate_length("description", item_data.description),
                validate_pattern("country_code", item_data.country_of_origin),
                validate_numeric("gross_weight", item_data.gross_weight),
                validate_numeric("net_weight", item_data.net_weight),
                validate_numeric("quantity", item_data.quantity),
                validate_numeric("customs_value", Whole(item_data.customs_value)),
                validate_length("package_type", item_data.package_type),
                validate_numeric("package_count", Whole(item_data.package_count))
            >>).errors
        cross == IF FracLess(item_data.gross_weight, item_data.net_weight)
                 THEN <<"Net weight cannot exceed gross weight">>
                 ELSE << >>
    IN  required \o fields \o cross

\* the required-field and format checks of _validate_header, in order.  The
\* fields exchange_rate and date hold a number and a datetime, so only the
\* text fields can be missing.
HeaderFieldChecks(decl) ==
    LET text_fields == <<"registration_number", "declaration_type",
                         "customs_office", "general_procedure_code",
                         "extended_procedure_code", "country_of_destination",
                         "mode_of_transport", "office_of_entry_exit",
                         "currency_code">>
        Present(f, check) == IF decl[f] # "" THEN check ELSE ValidationResult
        missing(f) == IF decl[f] = ""
                      THEN add_error(ValidationResult,
                                     "Required field '" \o f \o "' is missing")
                      ELSE ValidationResult
    IN      [i \in 1..Len(text_fields) |-> missing(text_fields[i])] \o
            << Present("registration_number",
                       validate_length("registration_number",
                                       decl.registration_number)),
               Present("registration_number",
                       validate_pattern("registration_number",
                                        decl.registration_number)),
               Present("declaration_type",
                       validate_pattern("declaration_type",
                                        decl.declaration_type)),
               Present("customs_office",
                       validate_pattern("customs_office", decl.customs_office)),
               Present("general_procedure_code",
                       validate_pattern("general_procedure_code",
                                        decl.general_procedure_code)),
               Present("extended_procedure_code",
                       validate_pattern("extended_procedure_code",
                                        decl.extended_procedure_code)),
               Present("country_of_destination",
                       validate_pattern("country_code",
                                        decl.country_of_destination)),
               Present("currency_code",
                       validate_pattern("currency_code", decl.currency_code)),
               validate_numeric("exchange_rate", decl.exchange_rate) >>

\* _validate_header without the check for items
_validate_header_without_items(decl) == MergeAll(HeaderFieldChecks(decl))

\* DeclarationValidator._validate_header
_validate_header(decl) ==
    MergeAll(HeaderFieldChecks(decl) \o
             << IF decl.items = << >>
                THEN add_error(ValidationResult,
                               "Declaration must have at least one item")
                ELSE ValidationResult >>)

\* DeclarationValidator._validate_entity
_validate_entity(entity, entity_type) ==
    LET required == <<"id", "name", "address_line1">>
        missing(f) == IF entity[f] = ""
                      THEN add_error(ValidationResult,
                                     "Required field '" \o f
                                         \o "' is missing for " \o entity_type)
                      ELSE ValidationResult
    IN  MergeAll(
            [i \in 1..Len(required) |-> missing(required[i])] \o
            << IF entity.id # ""
               THEN validate_length(entity_type \o "_id", entity.id)
               ELSE ValidationResult,
               IF entity.name # ""
               THEN validate_length(entity_type \o "_name", entity.name)
               ELSE ValidationResult,
               IF entity.country # ""
               THEN validate_pattern("country_code", entity.country)
               ELSE ValidationResult >>)

\* the cross-field check that ends DeclarationValidator._validate_item
\* (the source breaks off inside it): a net weight above the gross weight is
\* an error of its own
CrossFieldCheck(item, item_number) ==
    IF FracLess(item.gross_weight, item.net_weight)
    THEN add_error(ValidationResult,
                   "Net weight cannot exceed gross weight for item "
                       \o NatToStr(item_number))
    ELSE ValidationResult

\* DeclarationValidator._validate_item.  The numeric fields of an Item hold
\* numbers, so only the text fields can be missing.
_validate_item(item, item_number) ==
    LET text_fields == <<"hs_code", "description", "country_of_origin",
                         "statistical_unit", "package_type">>
        missing(f) == IF item[f] = ""
                      THEN add_error(ValidationResult,
                                     "Required field '" \o f
                                         \o "' is missing for item "
                                         \o NatToStr(item_number))
                      ELSE ValidationResult
    IN  MergeAll(
            [i \in 1..Len(text_fields) |-> missing(text_fields[i])] \o
            << IF item.hs_code # ""
               THEN validate_pattern("hs_code", item.hs_code)
               ELSE ValidationResult,
               IF item.description # ""
               THEN validate_length("description", item.description)
               ELSE ValidationResult,
               IF item.country_of_origin # ""
               THEN validate_pattern("country_code", item.country_of_origin)
               ELSE ValidationResult,
               validate_numeric("gross_weight", item.gross_weight),
               validate_numeric("net_weight", item.net_weight),
               validate_numeric("quantity", item.quantity),
               validate_numeric("customs_value", Whole(item.customs_value)),
               validate_numeric("package_count", Whole(item.package_count)),
               CrossFieldCheck(item, item_number) >>)

\* DeclarationValidator._validate_consistency, which the source does not
\* hold: no check beyond the header, entity and item checks
_validate_consistency(decl) == ValidationResult

\* validate_declaration stopping at the first check that reports an error
validate_declaration_short_circuit(decl) ==
    LET results ==
            << _validate_header(decl),
               _validate_entity(decl.exporter, "exporter"),
               _validate_entity(decl.declarant, "declarant") >> \o
            [i \in 1..Len(decl.items) |-> _validate_item(decl.items[i], i)] \o
            << _validate_consistency(decl) >>
        acc[i \in 0..Len(results)] ==
            IF i = 0 THEN ValidationResult
            ELSE IF ~acc[i - 1].is_valid THEN acc[i - 1]
                 ELSE merge(acc[i - 1], results[i])
    IN  acc[Len(results)]

\* DeclarationValidator.validate_declaration
validate_declaration(decl) ==
    MergeAll(
        << _validate_header(decl),
           _validate_entity(decl.exporter, "exporter"),
           _validate_entity(decl.declarant, "declarant") >> \o
        [i \in 1..Len(decl.items) |-> _validate_item(decl.items[i], i)] \o
        << _validate_consistency(decl) >>)

----------------------------------------------------------------------------
(* PipeDelimitedGenerator: the delimited-text encoding of a declaration.   *)

\* str(x) of the float x = value / unit, for values of up to four decimals
\* from 0.0001 up, where repr is the plain decimal: "0.1505", "10.0"
FloatStr(value, unit) ==
    LET scaled == (value.n * 10000) \div (value.d * unit)
        frac == scaled % 10000
        kept == IF frac % 1000 = 0 THEN 1
                ELSE IF frac % 100 = 0 THEN 2
                ELSE IF frac % 10 = 0 THEN 3 ELSE 4
    IN  NatToStr(scaled \div 10000) \o "." \o
        Prefix(Suffix("000" \o NatToStr(frac), 4), kept)

\* a field written as it stands, never quoted
csv_field_unquoted(text) == text

\* one field as csv.writer(delimiter='|', quoting=csv.QUOTE_MINIMAL) writes
\* it: quoted, with each quote character doubled, when it holds the
\* delimiter, the quote character or a character of the line terminator
csv_field(text) ==
    IF \E i \in 1..Len(text) : Char(text, i) \in {"|", "\"", "\r", "\n"}
    THEN "\"" \o Replace(text, "\"", "\"\"") \o "\""
    ELSE text

\* PipeDelimitedGenerator.generate(declaration, output_file): the text
\* written to output_file; date is declaration.date, and the fields of
\* Entity and Declaration that the model does not hold are at their defaults
generate(decl, date) ==
    LET writerow(fields) ==
            LET line[i \in 0..Len(fields)] ==
                    IF i = 0 THEN ""
                    ELSE line[i - 1] \o (IF i = 1 THEN "" ELSE "|")
                             \o csv_field(fields[i])
            IN  line[Len(fields)] \o "\r\n"
        OrEmpty(value) == IF value = NoneValue THEN "" ELSE value
        Pad2(n) == Suffix("0" \o NatToStr(n), 2)
        header ==
            << "H", decl.registration_number, decl.declaration_type,
               decl.customs_office,
               Pad2(date.day) \o "/" \o Pad2(date.month) \o "/"
                   \o NatToStr(date.year),
               decl.exporter.id, decl.exporter.name,
               decl.exporter.address_line1, "", decl.exporter.country,
               decl.declarant.id, decl.declarant.name,
               decl.general_procedure_code, decl.extended_procedure_code,
               decl.country_of_destination, decl.mode_of_transport,
               decl.office_of_entry_exit, decl.currency_code,
               FloatStr(decl.exchange_rate, 1), NatToStr(decl.total_packages),
               "", "1", "CIF", "", "", "", "" >>
        row(item) ==
            << "I", NatToStr(item.item_number), item.hs_code,
               item.description, item.country_of_origin,
               FloatStr(item.gross_weight, 1000),
               FloatStr(item.net_weight, 1000), item.statistical_unit,
               FloatStr(item.quantity, 1),
               FloatStr(Whole(item.customs_value), 100), item.package_type,
               NatToStr(item.package_count), item.marks_and_numbers,
               OrEmpty(item.previous_document) >>
        written[i \in 0..Len(decl.items)] ==
            IF i = 0 THEN writerow(header)
            ELSE written[i - 1] \o writerow(row(decl.items[i]))
    IN  written[Len(decl.items)]

RECURSIVE ReadRows(_, _, _, _)
\* csv.reader(..., delimiter='|') of the same dialect over text, one field
\* at a time: the rows read after rows and the fields of row; pending says
\* that a delimiter has opened a field.  A field that starts with the quote
\* character runs to the first quote character that is not doubled, doubled
\* quote characters standing for one; what follows up to the next
\* delimiter or line end belongs to the field as it stands.
ReadRows(text, row, rows, pending) ==
    IF Len(text) = 0
    THEN IF pending THEN Append(rows, Append(row, "")) ELSE rows
    ELSE
        LET quoted == Char(text, 1) = "\""
            Quotes(i) == Cardinality({k \in 2..i : Char(text, k) = "\""})
            Closing == {i \in 2..Len(text) :
                           /\ Char(text, i) = "\""
                           /\ Quotes(i) % 2 = 1
                           /\ i = Len(text) \/ Char(text, i + 1) # "\""}
            close == IF Closing = {} THEN Len(text) + 1
                     ELSE CHOOSE i \in Closing : \A k \in Closing : i <= k
            body == IF quoted
                    THEN Replace(SubSeq(text, 2, close - 1), "\"\"", "\"")
                    ELSE ""
            after == IF quoted THEN SubSeq(text, close + 1, Len(text)) ELSE text
            Stops == {j \in 1..Len(after) :
                         Char(after, j) \in {"|", "\r", "\n"}}
            stop == IF Stops = {} THEN Len(after) + 1
                    ELSE CHOOSE j \in Stops : \A k \in Stops : j <= k
            field == body \o SubSeq(after, 1, stop - 1)
            ended == IF ~pending /\ ~quoted /\ stop = 1 THEN row
                     ELSE Append(row, field)
        IN  IF stop > Len(after) THEN Append(rows, Append(row, field))
            ELSE IF Char(after, stop) = "|"
            THEN ReadRows(SubSeq(after, stop + 1, Len(after)),
                          Append(row, field), rows, TRUE)
            ELSE IF SubSeq(after, stop, stop + 1) = "\r\n"
            THEN ReadRows(SubSeq(after, stop + 2, Len(after)), << >>,
                          Append(rows, ended), FALSE)
            ELSE ReadRows(SubSeq(after, stop + 1, Len(after)), << >>,
                          Append(rows, ended), FALSE)

----------------------------------------------------------------------------
(* ScheduledTask and ScheduleManager of the automation module.             *)

\* ScheduledTask(config) as __init__ leaves it
ScheduledTask == [status |-> "pending", error |-> NoneValue,
                  last_run |-> NoneValue, next_run |-> NoneValue]

\* any(...) in the place of all(...)
any_valid(validation_results) ==
    \E i \in DOMAIN validation_results : validation_results[i][2].is_valid

\* all(v.is_valid for v in result['validation_results'].values())
all_valid(validation_results) ==
    \A i \in DOMAIN validation_results : validation_results[i][2].is_valid

----------------------------------------------------------------------------
(* The components as state machines.  A caller constructs them, loads      *)
(* tables and makes calls; call holds the call that has returned and its   *)
(* result until the caller has used it.                                    *)

matcher_vars == <<reference_rows, description_to_hs, hs_to_details,
                  keyword_mappings>>
weight_vars == <<default_weights, keyword_weights>>
document_vars == <<product_to_document, description_to_document>>
declaration_vars == <<declaration>>
automation_vars == <<scheduled_task, task_run, directories, tasks, jobs>>

vars == <<matcher_vars, weight_vars, document_vars, call, scorer_values,
          declaration_vars, result_pair, automation_vars>>

Idle == [op |-> "idle"]

\* FuzzyMatcher.__init__, WeightEstimator.__init__,
\* DocumentReferenceMapper.__init__ and Declaration(...) without items
Init ==
    /\ reference_rows = << >>
    /\ description_to_hs = << >>
    /\ hs_to_details = << >>
    /\ keyword_mappings = << >>
    /\ default_weights = DefaultWeights
    /\ keyword_weights = KeywordWeights
    /\ product_to_document = << >>
    /\ description_to_document = << >>
    /\ call = Idle
    /\ scorer_values = ScoreTable
    /\ declaration = Declaration("EX2025001", "EX3", "XCD",
                                 Entity("E100", "ANSE CHASTANET", "SOUFRIERE", "LC"),
                                 Entity("D200", "BROKER LTD", "CASTRIES", "LC"))
    /\ result_pair = [i \in 1..2 |-> ValidationResult]
    /\ scheduled_task = ScheduledTask
    /\ task_run = [pc |-> "returned", sales_files |-> << >>,
                   results |-> << >>]
    /\ directories = [sales   |-> {"sales_mon.xlsx", "sales_tue.xlsx"},
                      archive |-> {"sales_sun.xlsx"}]
    /\ tasks = EmptyDict
    /\ jobs = << >>

\* FuzzyMatcher.load_reference_data(table)
LoadReferenceData(table) ==
    /\ call = Idle
    /\ Len(reference_rows) + Len(table) <= MaxRows
    /\ LET loaded == LoadRows([description_to_hs |-> description_to_hs,
                               hs_to_details |-> hs_to_details], table)
       IN  /\ description_to_hs' = loaded.description_to_hs
           /\ hs_to_details' = loaded.hs_to_details
    /\ keyword_mappings' = KeywordTable
    /\ reference_rows' = reference_rows \o table
    /\ UNCHANGED <<weight_vars, call, document_vars,
                 scorer_values, result_pair, declaration_vars,
                   automation_vars>>

\* get_best_match that keeps the code it resolved under the description
GetBestMatchCaching(description, raises, configured) ==
    LET result == get_best_match(description_to_hs, hs_to_details,
                                 keyword_mappings, description, raises)
    IN  /\ call = Idle
        /\ call' = [op |-> "get_best_match", description |-> description,
                    raises |-> raises, fuzzy_threshold |-> configured,
                    result |-> result]
        /\ description_to_hs' =
               DictPut(description_to_hs, Strip(description), result.hs_code)
        /\ UNCHANGED <<reference_rows, hs_to_details, keyword_mappings,
                       weight_vars, document_vars, scorer_values, result_pair,
                       declaration_vars,
                   automation_vars>>

\* FuzzyMatcher.get_best_match(description), called for a row of a run that
\* the application started with settings["fuzzy_threshold"] = configured
GetBestMatch(description, raises, configured) ==
    /\ call = Idle
    /\ call' = [op |-> "get_best_match", description |-> description,
                raises |-> raises, fuzzy_threshold |-> configured,
                result |-> get_best_match(description_to_hs, hs_to_details,
                                          keyword_mappings, description, raises)]
    /\ UNCHANGED <<matcher_vars, weight_vars, document_vars,
                 scorer_values, result_pair, declaration_vars,
                   automation_vars>>

\* FuzzyMatcher.fuzzy_match(description, threshold)
FuzzyMatch(description, threshold, raises) ==
    /\ call = Idle
    /\ call' = [op |-> "fuzzy_match", description |-> description,
                raises |-> raises, threshold |-> threshold,
                result |-> fuzzy_match(description_to_hs, description,
                                       threshold, raises)]
    /\ UNCHANGED <<matcher_vars, weight_vars, document_vars,
                 scorer_values, result_pair, declaration_vars,
                   automation_vars>>

\* the caller has used the result
Return ==
    /\ call # Idle
    /\ call' = Idle
    /\ UNCHANGED <<matcher_vars, weight_vars, document_vars,
                 scorer_values, result_pair, declaration_vars,
                   automation_vars>>

Next ==
    \/ \E table \in SeqsUpTo(ReferenceRows, MaxRows) : LoadReferenceData(table)
    \/ \E d \in SalesDescriptions, raises \in BOOLEAN, t \in ThresholdChoices :
          GetBestMatch(d, raises, t)
    \/ \E d \in SalesDescriptions, t \in ThresholdChoices, raises \in BOOLEAN :
          FuzzyMatch(d, t, raises)
    \/ Return

Spec == Init /\ [][Next]_vars

\* mappings added to the estimator so far
AddedMappings ==
    (Len(default_weights) - Len(DefaultWeights))
        + Cardinality({i \in DOMAIN default_weights :
                          i <= Len(DefaultWeights)
                              /\ default_weights[i] # DefaultWeights[i]})
        + (Len(keyword_weights) - Len(KeywordWeights))
        + Cardinality({i \in DOMAIN keyword_weights :
                          i <= Len(KeywordWeights)
                              /\ keyword_weights[i] # KeywordWeights[i]})

\* WeightEstimator.add_weight_mapping(hs_prefix, gross, net)
AddWeightMapping(hs_prefix, gross, net) ==
    /\ call = Idle
    /\ AddedMappings < MaxMappings
    /\ default_weights' = DictPut(default_weights, hs_prefix, <<gross, net>>)
    /\ UNCHANGED <<matcher_vars, keyword_weights, call, document_vars,
                 scorer_values, result_pair, declaration_vars,
                   automation_vars>>

\* WeightEstimator.add_keyword_mapping(keyword, gross, net)
AddKeywordMapping(keyword, gross, net) ==
    /\ call = Idle
    /\ AddedMappings < MaxMappings
    /\ keyword_weights' = DictPut(keyword_weights, Upper(keyword), <<gross, net>>)
    /\ UNCHANGED <<matcher_vars, default_weights, call, document_vars,
                 scorer_values, result_pair, declaration_vars,
                   automation_vars>>

\* WeightEstimator.estimate_weights(hs_code, description, quantity)
EstimateWeights(hs_code, description, quantity) ==
    /\ call = Idle
    /\ call' = [op |-> "estimate_weights", hs_code |-> hs_code,
                description |-> description, quantity |-> quantity,
                result |-> estimate_weights(default_weights, keyword_weights,
                                            hs_code, description, quantity)]
    /\ UNCHANGED <<matcher_vars, weight_vars, document_vars,
                 scorer_values, result_pair, declaration_vars,
                   automation_vars>>

NextWeights ==
    \/ \E p \in WeightPrefixes, w \in WeightValues :
          AddWeightMapping(p, w[1], w[2])
    \/ \E k \in WeightKeywords, w \in WeightValues :
          AddKeywordMapping(k, w[1], w[2])
    \/ \E c \in EstimateCodes, d \in EstimateDescriptions, q \in Quantities :
          EstimateWeights(c, d, q)
    \/ Return

SpecWeights == Init /\ [][NextWeights]_vars

\* FieldMapper.load_reference_data(file) for a file holding table: the
\* matcher of hs_lookup and the document mapper are loaded from it
MapperLoadReferenceData(table) ==
    /\ call = Idle
    /\ Len(reference_rows) + Len(table) <= MaxRows
    /\ LET loaded == LoadRows([description_to_hs |-> description_to_hs,
                               hs_to_details |-> hs_to_details], table)
       IN  /\ description_to_hs' = loaded.description_to_hs
           /\ hs_to_details' = loaded.hs_to_details
    /\ keyword_mappings' = KeywordTable
    /\ reference_rows' = reference_rows \o table
    /\ LET loaded == LoadDocumentRows(
                         [product_to_document |-> product_to_document,
                          description_to_document |-> description_to_document],
                         table)
       IN  /\ product_to_document' = loaded.product_to_document
           /\ description_to_document' = loaded.description_to_document
    /\ UNCHANGED <<weight_vars, call, scorer_values, result_pair, declaration_vars,
                   automation_vars>>

\* FieldMapper.map_sales_to_declaration(sales_df, ...)
MapSalesToDeclaration(sales, raises, current_year) ==
    /\ call = Idle
    /\ call' = [op |-> "map_sales_to_declaration", sales |-> sales,
                raises |-> raises, current_year |-> current_year,
                result |-> map_sales_to_declaration(
                               [description_to_hs |-> description_to_hs,
                                hs_to_details |-> hs_to_details,
                                keyword_mappings |-> keyword_mappings,
                                default_weights |-> default_weights,
                                keyword_weights |-> keyword_weights,
                                product_to_document |-> product_to_document,
                                description_to_document |-> description_to_document],
                               sales, raises, current_year)]
    /\ UNCHANGED <<matcher_vars, weight_vars, document_vars, scorer_values, result_pair, declaration_vars,
                   automation_vars>>

NextMapper ==
    \/ \E table \in SeqsUpTo(MapperReferenceRows, MaxRows) :
          MapperLoadReferenceData(table)
    \/ \E sales \in SeqsUpTo(SalesRows, MaxSales), raises \in BOOLEAN,
          year \in Years :
          MapSalesToDeclaration(sales, raises, year)
    \/ Return

SpecMapper == Init /\ [][NextMapper]_vars

\* the rows of the tables a DocumentReferenceMapper is given, and the
\* arguments of the calls made on it
DocumentRows ==
    { Row("SILK", "62141000", "IT", "", "11"),
      Row("Silk Scarf ", "62141000", "IT", "p100", "22"),
      Row("LADIES STRAW HAT", "65050000", "CO", "p200", "33"),
      Row("GOLD COIN", "7118000000", "US", "p100", "") }
ProductCodes == {"", "p100", "x9"}
DocumentDescriptions ==
    {"", "silk scarf", "BLUE SILK SCARF", "SCARF", "LADIES STRAW HAT",
     "COSMETIC BAG"}
DocumentCodes == {"", "7", "64", "7118", "62141000", "9900000000"}

\* DocumentReferenceMapper.load_from_anse_chastanet_format(table)
LoadFromAnseChastanetFormat(table) ==
    /\ call = Idle
    /\ Len(reference_rows) + Len(table) <= MaxRows
    /\ LET loaded == LoadDocumentRows(
                         [product_to_document |-> product_to_document,
                          description_to_document |-> description_to_document],
                         table)
       IN  /\ product_to_document' = loaded.product_to_document
           /\ description_to_document' = loaded.description_to_document
    /\ reference_rows' = reference_rows \o table
    /\ UNCHANGED <<description_to_hs, hs_to_details, keyword_mappings,
                   weight_vars, call, scorer_values, result_pair, declaration_vars,
                   automation_vars>>

\* DocumentReferenceMapper.get_document_reference(product_code, description,
\* hs_code), called in the year current_year
GetDocumentReference(product_code, description, hs_code, current_year) ==
    /\ call = Idle
    /\ call' = [op |-> "get_document_reference", product_code |-> product_code,
                description |-> description, hs_code |-> hs_code,
                current_year |-> current_year,
                result |-> get_document_reference(
                               product_to_document, description_to_document,
                               product_code, description, hs_code, current_year)]
    /\ UNCHANGED <<matcher_vars, weight_vars, document_vars, scorer_values, result_pair, declaration_vars,
                   automation_vars>>

NextDocuments ==
    \/ \E table \in SeqsUpTo(DocumentRows, MaxRows) :
          LoadFromAnseChastanetFormat(table)
    \/ \E p \in ProductCodes, d \in DocumentDescriptions, c \in DocumentCodes,
          year \in Years :
          GetDocumentReference(p, d, c, year)
    \/ Return

SpecDocuments == Init /\ [][NextDocuments]_vars

\* Declaration.add_item(item)
AddItem(item) ==
    /\ call = Idle
    /\ Len(declaration.items) < MaxItems
    /\ declaration' = add_item(declaration, item)
    /\ UNCHANGED <<matcher_vars, weight_vars, document_vars, call,
                   scorer_values, result_pair,
                   automation_vars>>

\* Declaration.calculate_totals()
CalculateTotals ==
    /\ call = Idle
    /\ LET done == calculate_totals(declaration)
       IN  /\ declaration' = done.declaration
           /\ call' = [op |-> "calculate_totals", result |-> done.totals]
    /\ UNCHANGED <<matcher_vars, weight_vars, document_vars, scorer_values, result_pair,
                   automation_vars>>

\* Declaration(...): the caller turns to a new declaration
NewDeclaration(created) ==
    /\ call = Idle
    /\ declaration' = created
    /\ UNCHANGED <<matcher_vars, weight_vars, document_vars, call,
                   scorer_values, result_pair,
                   automation_vars>>

\* item.validate() on an Item
ItemValidate(item) ==
    /\ call = Idle
    /\ call' = [op |-> "Item.validate", item |-> item,
                raised |-> Item_validate(item)]
    /\ UNCHANGED <<matcher_vars, weight_vars, document_vars, scorer_values, result_pair,
                   declaration_vars,
                   automation_vars>>

\* FieldConstraints.validate_item(item_data) on the dict of an Item
ValidateItem(item) ==
    /\ call = Idle
    /\ call' = [op |-> "validate_item", item |-> item,
                result |-> validate_item(item)]
    /\ UNCHANGED <<matcher_vars, weight_vars, document_vars, scorer_values, result_pair,
                   declaration_vars,
                   automation_vars>>

\* DeclarationValidator().validate_declaration(declaration), once or twice
\* in a row on the same declaration; earlier holds the result of the call
\* before (of this call when there was none)
ValidateDeclaration ==
    /\ \/ call = Idle
       \/ call.op = "validate_declaration" /\ call.calls = 1
    /\ LET result == validate_declaration(declaration)
       IN  call' = [op |-> "validate_declaration", result |-> result,
                    calls |-> IF call = Idle THEN 1 ELSE 2,
                    earlier |-> IF call = Idle THEN result ELSE call.result]
    /\ UNCHANGED <<matcher_vars, weight_vars, document_vars, scorer_values, result_pair,
                   declaration_vars,
                   automation_vars>>

NextDeclaration ==
    \/ \E created \in DeclarationPool : NewDeclaration(created)
    \/ \E item \in ItemPool : AddItem(item)
    \/ CalculateTotals
    \/ \E item \in ItemPool : ItemValidate(item)
    \/ \E item \in ItemPool : ValidateItem(item)
    \/ ValidateDeclaration
    \/ Return

SpecDeclaration == Init /\ [][NextDeclaration]_vars

\* result_pair[i] = ValidationResult()
NewResult(i) ==
    /\ call = Idle
    /\ result_pair' = [result_pair EXCEPT ![i] = ValidationResult]
    /\ UNCHANGED <<matcher_vars, weight_vars, document_vars, call,
                   scorer_values, declaration_vars,
                   automation_vars>>

\* result_pair[i].add_error(error)
AddError(i, error) ==
    /\ call = Idle
    /\ Len(result_pair[i].errors) < MaxMessages
    /\ result_pair' = [result_pair EXCEPT ![i] = add_error(@, error)]
    /\ call' = [op |-> "add_error", i |-> i, before |-> result_pair[i]]
    /\ UNCHANGED <<matcher_vars, weight_vars, document_vars, scorer_values,
                   declaration_vars,
                   automation_vars>>

\* result_pair[i].add_warning(warning)
AddWarning(i, warning) ==
    /\ call = Idle
    /\ Len(result_pair[i].warnings) < MaxMessages
    /\ result_pair' = [result_pair EXCEPT ![i] = add_warning(@, warning)]
    /\ call' = [op |-> "add_warning", i |-> i, before |-> result_pair[i]]
    /\ UNCHANGED <<matcher_vars, weight_vars, document_vars, scorer_values,
                   declaration_vars,
                   automation_vars>>

\* result_pair[i].merge(result_pair[j]) with another object result_pair[j]
Merge(i, j) ==
    /\ call = Idle
    /\ i # j
    /\ Len(result_pair[i].errors) + Len(result_pair[j].errors) <= MaxMessages
    /\ Len(result_pair[i].warnings) + Len(result_pair[j].warnings) <= MaxMessages
    /\ result_pair' = [result_pair EXCEPT ![i] = merge(@, result_pair[j])]
    /\ call' = [op |-> "merge", i |-> i, j |-> j, before |-> result_pair[i],
                other |-> result_pair[j]]
    /\ UNCHANGED <<matcher_vars, weight_vars, document_vars, scorer_values,
                   declaration_vars,
                   automation_vars>>

NextResults ==
    \/ \E i \in 1..2 : NewResult(i)
    \/ \E i \in 1..2,
          error \in {"Required field 'hs_code' is missing",
                     "Net weight cannot exceed gross weight"} :
          AddError(i, error)
    \/ \E i \in 1..2 : AddWarning(i, "Customs value is zero")
    \/ \E i \in 1..2, j \in 1..2 : Merge(i, j)
    \/ Return

SpecResults == Init /\ [][NextResults]_vars

\* the items encoded: a plain one and descriptions with the delimiter and
\* with quote characters
EncoderItems ==
    { Item(0, "65040000", "LADIES STRAW HAT", "US", Whole(200), Whole(150),
           Whole(1), 1000, 1),
      Item(0, "42022900", "BAG | COSMETIC", "CO", Fraction(301, 2), Whole(90),
           Whole(12), 2050, 2),
      Item(0, "73170000", "6\" NAIL \"STEEL\"", "IT", Whole(15), Whole(15),
           Fraction(5, 2), 5, 30) }

\* PipeDelimitedGenerator().generate(declaration, output_file) on a
\* declaration created on date
Generate(date) ==
    /\ call = Idle
    /\ call' = [op |-> "generate", date |-> date,
                output |-> generate(declaration, date)]
    /\ UNCHANGED <<matcher_vars, weight_vars, document_vars, scorer_values,
                   result_pair, declaration_vars,
                   automation_vars>>

NextEncoder ==
    \/ \E item \in EncoderItems : AddItem(item)
    \/ \E date \in {[day |-> 2, month |-> 11, year |-> 2025],
                     [day |-> 15, month |-> 1, year |-> 2026]} :
          Generate(date)
    \/ Return

SpecEncoder == Init /\ [][NextEncoder]_vars

\* ScheduledTask.run up to the loop over the sales files: glob_raises says
\* that glob.glob raises (a pattern that is no string), found is the list it
\* returns otherwise
RunStart(found, glob_raises) ==
    /\ task_run.pc = "returned"
    /\ \A i \in DOMAIN found : found[i].name \in directories[found[i].dir]
    /\ \A i, j \in DOMAIN found : found[i] = found[j] => i = j
    /\ IF glob_raises
       THEN /\ scheduled_task' = [scheduled_task EXCEPT
                                       !.status = "failed",
                                       !.error = "TypeError",
                                       !.last_run = "now"]
            /\ task_run' = [pc |-> "returned", sales_files |-> << >>,
                       results |-> << >>]
       ELSE /\ scheduled_task' = [scheduled_task EXCEPT !.status = "running",
                                                       !.last_run = "now"]
            /\ task_run' = [pc |-> "files", sales_files |-> found,
                       results |-> << >>]
    /\ UNCHANGED <<matcher_vars, weight_vars, document_vars, call,
                   scorer_values, declaration_vars, result_pair, directories,
                   tasks, jobs>>

\* one pass of the loop of ScheduledTask.run over the next sales file:
\* outcome is what process_sales_file and the saving of its outputs come to,
\* an exception or a result
ProcessFile(outcome) ==
    /\ task_run.pc = "files"
    /\ Len(task_run.results) < Len(task_run.sales_files)
    /\ LET sales_file == task_run.sales_files[Len(task_run.results) + 1]
       IN  /\ task_run' = [task_run EXCEPT !.results = Append(@, outcome)]
           /\ IF /\ outcome.kind = "result"
                 /\ outcome.success
                 /\ all_valid(outcome.validation_results)
                 /\ sales_file.dir # "archive"
              THEN directories' =
                       [directories EXCEPT
                            ![sales_file.dir] = @ \ {sales_file.name},
                            !.archive = @ \cup {sales_file.name}]
              ELSE UNCHANGED directories
    /\ UNCHANGED <<matcher_vars, weight_vars, document_vars, call,
                   scorer_values, declaration_vars, result_pair,
                   scheduled_task, tasks, jobs>>

\* the end of ScheduledTask.run with an exception in a sales file taken
\* for a failure of the run
RunFinishFailing ==
    /\ task_run.pc = "files"
    /\ Len(task_run.results) = Len(task_run.sales_files)
    /\ scheduled_task' =
           [scheduled_task EXCEPT
                !.status = IF \E i \in DOMAIN task_run.results :
                                  task_run.results[i].kind = "raises"
                           THEN "failed" ELSE "completed"]
    /\ task_run' = [task_run EXCEPT !.pc = "returned"]
    /\ UNCHANGED <<matcher_vars, weight_vars, document_vars, call,
                   scorer_values, declaration_vars, result_pair, directories,
                   tasks, jobs>>

\* the end of ScheduledTask.run after the loop
RunFinish ==
    /\ task_run.pc = "files"
    /\ Len(task_run.results) = Len(task_run.sales_files)
    /\ scheduled_task' = [scheduled_task EXCEPT !.status = "completed"]
    /\ task_run' = [task_run EXCEPT !.pc = "returned"]
    /\ UNCHANGED <<matcher_vars, weight_vars, document_vars, call,
                   scorer_values, declaration_vars, result_pair, directories,
                   tasks, jobs>>

NextTask ==
    \/ \E found \in SeqsUpTo([name : {"sales_mon.xlsx", "sales_tue.xlsx",
                                       "sales_sun.xlsx"},
                               dir : {"sales", "archive"}], MaxFiles),
          glob_raises \in BOOLEAN :
          RunStart(found, glob_raises)
    \/ \E outcome \in
              {[kind |-> "raises", success |-> FALSE,
                validation_results |-> << >>],
               [kind |-> "result", success |-> FALSE,
                validation_results |-> << >>],
               [kind |-> "result", success |-> FALSE,
                validation_results |->
                    << <<"declaration", ValidationResult>> >>]} \cup
              [kind : {"result"}, success : {TRUE},
               validation_results :
                   { << >>,
                     << <<"declaration", ValidationResult>> >>,
                     << <<"declaration", ValidationResult>>,
                        <<"items",
                          add_error(ValidationResult,
                                    "Net weight cannot exceed gross weight")>> >>,
                     << <<"declaration",
                          add_error(ValidationResult,
                                    "Declaration must have at least one item")>>,
                        <<"items", ValidationResult>> >> }] :
          ProcessFile(outcome)
    \/ RunFinish

SpecTask == Init /\ [][NextTask]_vars

\* ScheduleManager.add_task(task_id, config) with config.schedule_type
\* 'daily' or 'weekly': a new ScheduledTask (object tells the objects
\* apart), and a job of the schedule module that runs it, tagged task_id
AddTask(task_id, schedule_type) ==
    /\ Len(jobs) < MaxJobs
    /\ LET objects == {jobs[i].task.object : i \in DOMAIN jobs}
                          \cup {tasks[i][2].object : i \in DOMAIN tasks}
           task == [object |-> CHOOSE n \in 1..(MaxJobs + 1) :
                                   /\ n \notin objects
                                   /\ \A k \in 1..(n - 1) : k \in objects,
                    schedule_type |-> schedule_type,
                    task |-> [ScheduledTask EXCEPT !.next_run = "01:00"]]
       IN  /\ tasks' = DictPut(tasks, task_id, task)
           /\ jobs' = Append(jobs, [tag |-> task_id, task |-> task,
                                    every |-> IF schedule_type = "daily"
                                              THEN "day" ELSE "monday",
                                    at |-> "01:00"])
    /\ UNCHANGED <<matcher_vars, weight_vars, document_vars, call,
                   scorer_values, declaration_vars, result_pair,
                   scheduled_task, task_run, directories>>

\* ScheduleManager.remove_task(task_id): schedule.clear(task_id) drops every
\* job tagged task_id
RemoveTask(task_id) ==
    /\ DictHas(tasks, task_id)
    /\ jobs' = SelectSeq(jobs, LAMBDA job : job.tag # task_id)
    /\ tasks' = SelectSeq(tasks, LAMBDA entry : entry[1] # task_id)
    /\ UNCHANGED <<matcher_vars, weight_vars, document_vars, call,
                   scorer_values, declaration_vars, result_pair,
                   scheduled_task, task_run, directories>>

NextSchedule ==
    \/ \E task_id \in {"daily_sales", "weekly_sales", "shop"},
          schedule_type \in {"daily", "weekly"} :
          AddTask(task_id, schedule_type)
    \/ \E task_id \in {"daily_sales", "weekly_sales", "shop"} :
          RemoveTask(task_id)

SpecSchedule == Init /\ [][NextSchedule]_vars

----------------------------------------------------------------------------
(* Properties of FuzzyMatcher, stated on the result the caller holds.      *)

\* C1: a description present verbatim in a row of the loaded reference table
\* (a row with a description and an HS code) resolves with method 'exact',
\* confidence 100 and the HS code a row of the table records for it.
C1_ExactReturnsTableCode ==
    call.op = "get_best_match" =>
        LET rows == {i \in DOMAIN reference_rows :
                        /\ reference_rows[i].Description = call.description
                        /\ Strip(reference_rows[i].Description) # ""
                        /\ Strip(reference_rows[i].HS_Code) # ""}
        IN  rows # {} =>
                /\ call.result.method = "exact"
                /\ call.result.confidence = Whole(100)
                /\ \E i \in rows :
                       call.result.hs_code = Strip(reference_rows[i].HS_Code)

StageNames == <<"exact", "keyword", "fuzzy", "token", "default">>

\* C3: get_best_match returns the result of the first of the stages exact,
\* keyword, fuzzy, token, default that succeeds, whatever the later stages
\* would have found.
C3_FirstStageWins ==
    (call.op = "get_best_match" /\ call.description # "") =>
        LET text    == Strip(call.description)
            exact   == exact_match(description_to_hs, text)
            keyword == keyword_match(keyword_mappings, text)
            fuzzy   == fuzzy_match(description_to_hs, text,
                                   DefaultFuzzyThreshold, call.raises)
            token   == token_match(description_to_hs, text,
                                   DefaultTokenThreshold)
            succeeded(i) == CASE i = 1 -> exact # NoneValue
                              [] i = 2 -> keyword # NoneValue
                              [] i = 3 -> fuzzy # << >>
                              [] i = 4 -> token # NoneValue
                              [] i = 5 -> TRUE
            first   == CHOOSE i \in 1..5 :
                           succeeded(i) /\ \A j \in 1..(i - 1) : ~succeeded(j)
        IN  /\ call.result.method = StageNames[first]
            /\ call.result.hs_code =
                   CASE first = 1 -> exact
                     [] first = 2 -> keyword
                     [] first = 3 -> fuzzy[1]
                     [] first = 4 -> token
                     [] first = 5 -> get_default_hs_code(text)

\* a keyword decides although a reference description matches at 97
C3_Witness ==
    /\ call.op = "get_best_match"
    /\ call.description = "LADIES STRAW HATS"
    /\ call.result.method = "keyword"
    /\ fuzzy_match(description_to_hs, call.description,
                   DefaultFuzzyThreshold, call.raises) # << >>

\* C4: fuzzy_match(description, threshold) returns no match or a pair
\* (code, score) with score >= threshold, and where it returns a match it
\* returns one at every lower threshold as well.
C4_FuzzyScoreAtLeastThreshold ==
    call.op = "fuzzy_match" =>
        \/ call.result = << >>
        \/ /\ FracLeq(Whole(call.threshold), call.result[2])
           /\ \A lower \in {0, 50} \cup ThresholdChoices :
                  lower <= call.threshold =>
                      fuzzy_match(description_to_hs, call.description, lower,
                                  call.raises) # << >>

\* a candidate that scores exactly the threshold is returned
C4_Witness ==
    /\ call.op = "fuzzy_match"
    /\ call.threshold = 80
    /\ call.result # << >>
    /\ call.result[2] = Whole(80)

\* C5: where the exact and keyword stages fail, get_best_match accepts the
\* best-scoring reference description with method 'fuzzy' and its score as
\* confidence if and only if that score is at least the fuzzy_threshold the
\* caller configured.
C5_ConfiguredThresholdDecides ==
    (/\ call.op = "get_best_match"
     /\ ~call.raises
     /\ call.description # ""
     /\ Len(description_to_hs) > 0
     /\ exact_match(description_to_hs, Strip(call.description)) = NoneValue
     /\ keyword_match(keyword_mappings, Strip(call.description)) = NoneValue) =>
        LET best == ExtractOne(Upper(Strip(call.description)),
                               description_to_hs, << >>)
        IN  (best[2] >= call.fuzzy_threshold) <=>
                /\ call.result.method = "fuzzy"
                /\ call.result.confidence = Whole(best[2])

\* C6: where the earlier stages fail, the token stage compares the words of
\* the description and of each reference description without the stop
\* words, and accepts the entry with the largest intersection if that has at
\* least 2 words, the first such entry in the iteration order of the
\* reference table, with method 'token' and confidence 60.
C6_TokenStage ==
    (call.op = "get_best_match" /\ call.description # "") =>
        LET text == Strip(call.description)
            Words(t) == Range(FindWords(Upper(t))) \
                            {"AND", "WITH", "THE", "OF", "IN", "FOR", "TO", "A", "AN"}
            overlap(i) == Cardinality(Words(text)
                                        \cap Words(description_to_hs[i][1]))
            largest == {i \in DOMAIN description_to_hs :
                           \A j \in DOMAIN description_to_hs :
                               overlap(j) <= overlap(i)}
            earlier ==
                \/ exact_match(description_to_hs, text) # NoneValue
                \/ keyword_match(keyword_mappings, text) # NoneValue
                \/ fuzzy_match(description_to_hs, text, DefaultFuzzyThreshold,
                               call.raises) # << >>
        IN  ~earlier =>
                IF \E i \in DOMAIN description_to_hs : overlap(i) >= 2
                THEN /\ call.result.method = "token"
                     /\ call.result.confidence = Whole(60)
                     /\ \E i \in largest :
                            /\ \A j \in largest : i <= j
                            /\ call.result.hs_code = description_to_hs[i][2]
                ELSE call.result.method = "default"

\* two reference descriptions share two words with the description; the one
\* loaded first is taken
C6_Witness ==
    /\ call.op = "get_best_match"
    /\ call.description = "BLUE SILK SCARF"
    /\ Len(reference_rows) = 2
    /\ reference_rows[1].Description = "SILK AND WOOL SCARF"
    /\ reference_rows[2].Description = "SCARF OF SILK"
    /\ call.result.method = "token"
    /\ call.result.hs_code = "62142000"

\* C7: get_best_match returns a code for every description; a result of
\* method 'default' has confidence 30, or 0 for the empty description, and
\* its code is that of the first category with a word in the description, or
\* '71179000' where there is none.
C7_AlwaysClassified ==
    call.op = "get_best_match" =>
        /\ call.result.hs_code \notin {"", NoneValue}
        /\ call.result.method \in Range(StageNames)
        /\ call.result.method = "default" =>
               LET text == Upper(Strip(call.description))
                   hits == {i \in DOMAIN DefaultCategories :
                               \E word \in DefaultCategories[i][1] :
                                   Contains(word, text)}
               IN  /\ call.result.confidence =
                          IF call.description = "" THEN Whole(0) ELSE Whole(30)
                   /\ hits = {} => call.result.hs_code = "71179000"
                   /\ hits # {} =>
                          \E i \in hits :
                              /\ \A j \in hits : i <= j
                              /\ call.result.hs_code = DefaultCategories[i][2]

\* a description of blanks only is not empty: hard default, confidence 30
C7_Witness ==
    /\ call.op = "get_best_match"
    /\ call.description = "  "
    /\ call.result = Match("71179000", "default", Whole(30), EmptyDict)

----------------------------------------------------------------------------
(* Properties of WeightEstimator.                                          *)

\* C9: the unit weights are those of the prefix-table entry for the code's
\* 4-digit prefix; if there is none, of the entry for its 2-digit prefix; if
\* the code is absent or matched no prefix and a description is given, of
\* the first keyword of the keyword table that occurs in the description;
\* otherwise the default 0.3 / 0.25.
C9_DescriptionAfterPrefixes ==
    (call.op = "estimate_weights" /\ call.quantity = Whole(1)) =>
        LET code == call.hs_code
            text == Upper(call.description)
            prefixed(n) == {i \in DOMAIN default_weights :
                               /\ code # ""
                               /\ Len(code) >= n
                               /\ StartsWith(default_weights[i][1], Prefix(code, n))}
            keywords == {i \in DOMAIN keyword_weights :
                            /\ call.description # ""
                            /\ Contains(keyword_weights[i][1], text)}
            Is(w) == call.result = [gross |-> Whole(w[1]), net |-> Whole(w[2])]
        IN  IF prefixed(4) # {}
            THEN \E i \in prefixed(4) : Is(default_weights[i][2])
            ELSE IF prefixed(2) # {}
            THEN \E i \in prefixed(2) : Is(default_weights[i][2])
            ELSE IF keywords # {}
            THEN \E i \in keywords :
                     (\A j \in keywords : i <= j) /\ Is(keyword_weights[i][2])
            ELSE Is(<<300, 250>>)

\* C10: estimate_weights(code, description, q) returns q times the gross and
\* net of estimate_weights(code, description, 1) and leaves the estimator's
\* tables as they were.
C10_QuantityScales ==
    [][(call.op = "idle" /\ call'.op = "estimate_weights") =>
           /\ default_weights' = default_weights
           /\ keyword_weights' = keyword_weights
           /\ LET one == estimate_weights(default_weights, keyword_weights,
                                          call'.hs_code, call'.description,
                                          Whole(1))
              IN  call'.result =
                      [gross |-> FracTimes(call'.quantity, one.gross),
                       net   |-> FracTimes(call'.quantity, one.net)]]_vars

\* three hats weigh 0.6 and 0.45
C10_Witness ==
    /\ call.op = "estimate_weights"
    /\ call.hs_code = "65040000"
    /\ call.quantity = Whole(3)
    /\ call.result = [gross |-> Whole(600), net |-> Whole(450)]

----------------------------------------------------------------------------
(* Properties of FieldMapper.                                              *)

\* the sales table of the scenario: one row, LADIES STRAW HAT, 25.00, 1
HatSales ==
    << SalesRow(Text("LADIES STRAW HAT"), NaN, Number(2500), Number(Whole(1))) >>

\* C8: with an empty reference table, the sales table HatSales gives one
\* item with the headwear code 65040000 found by method 'keyword', gross
\* weight 0.2 and net weight 0.15, origin 'US', and a synthesized previous
\* document whose office is the entry of hs_to_office for headwear ('65').
C8_StrawHatScenario ==
    (/\ call.op = "map_sales_to_declaration"
     /\ call.sales = HatSales
     /\ Len(description_to_hs) = 0) =>
        /\ Len(call.result.declaration.items) = 1
        /\ Len(call.result.log) = 1
        /\ call.result.log[1].method = "keyword"
        /\ LET item == call.result.declaration.items[1]
           IN  /\ item.hs_code = "65040000"
               /\ item.gross_weight = Whole(200)
               /\ item.net_weight = Whole(150)
               /\ item.country_of_origin = "US"
               /\ item.previous_document =
                      DictGet(HsToOffice, "65", NoneValue) \o " "
                          \o NatToStr(call.current_year) \o " C 0000 art. 00"

----------------------------------------------------------------------------
(* Properties of DocumentReferenceMapper.                                  *)

\* C11: get_document_reference answers in strict precedence: the reference
\* of the product code if the product map has it; else that of the
\* uppercased description if the description map has it; else that of the
\* first known description that contains or is contained in the description;
\* else the reference synthesized from the HS code if one is given; else the
\* fixed literal.  The answer is never empty.
C11_ReferencePrecedence ==
    call.op = "get_document_reference" =>
        LET product  == Upper(call.product_code)
            text     == Upper(call.description)
            d2d      == description_to_document
            products == {i \in DOMAIN product_to_document :
                            /\ call.product_code # ""
                            /\ product_to_document[i][1] = product}
            exacts   == {i \in DOMAIN d2d :
                            call.description # "" /\ d2d[i][1] = text}
            partials == {i \in DOMAIN d2d :
                            /\ call.description # ""
                            /\ \/ Contains(d2d[i][1], text)
                               \/ Contains(text, d2d[i][1])}
        IN  /\ call.result # ""
            /\ IF products # {}
               THEN \E i \in products : call.result = product_to_document[i][2]
               ELSE IF exacts # {}
               THEN \E i \in exacts : call.result = d2d[i][2]
               ELSE IF partials # {}
               THEN \E i \in partials :
                        /\ \A j \in partials : i <= j
                        /\ call.result = d2d[i][2]
               ELSE IF call.hs_code # ""
               THEN call.result = generate_default_reference(call.hs_code,
                                                             call.current_year)
               ELSE call.result = "LCCAP 2025 C 10000 art. 1"

\* the product code and the description are both known, with different
\* references: the product code's is returned
C11_Witness ==
    /\ call.op = "get_document_reference"
    /\ call.product_code = "p100"
    /\ call.description = "LADIES STRAW HAT"
    /\ call.hs_code # ""
    /\ DictGet(description_to_document, "LADIES STRAW HAT", NoneValue)
           = "LCVGC 2024 C 33 art. 2"
    /\ call.result = "LCVGC 2024 C 22 art. 2"

\* C12: a reference synthesized from an HS code is
\* '<office> <current_year> C <serial> art. <article>': office is the entry
\* of hs_to_office for the first two digits of the code, LCCAP where there
\* is none; serial is the last 4 digits of the code, 10000 where the code
\* has no 4 digits; article is the last 2 digits of the code, 1 where the
\* code has no 2 digits.
C12_SynthesizedReference ==
    (/\ call.op = "get_document_reference"
     /\ call.hs_code # ""
     /\ call.product_code = ""
     /\ call.description = "") =>
        LET code    == call.hs_code
            offices == {i \in DOMAIN HsToOffice :
                           Len(code) >= 2 /\ HsToOffice[i][1] = Prefix(code, 2)}
            office  == IF offices = {} THEN "LCCAP"
                       ELSE HsToOffice[CHOOSE i \in offices : TRUE][2]
            serial  == IF Len(code) >= 4 THEN Suffix(code, 4) ELSE "10000"
            article == IF Len(code) >= 2 THEN Suffix(code, 2) ELSE "1"
        IN  call.result = office \o " " \o NatToStr(call.current_year) \o " C "
                              \o serial \o " art. " \o article

----------------------------------------------------------------------------
(* Properties of FieldMapper.map_sales_to_declaration.                     *)

\* C13: the item numbers of the declaration returned by
\* map_sales_to_declaration are 1..n in item order: each item carries its
\* position among the retained rows.
C13_ItemNumbersContiguous ==
    call.op = "map_sales_to_declaration" =>
        LET items == call.result.declaration.items
        IN  \A i \in DOMAIN items : items[i].item_number = i

\* C14: map_sales_to_declaration returns a declaration with exactly one
\* item, in input order, for each row that has a description and a value
\* and whose resolution raises nothing; rows without description or value
\* and rows that raise give no item, and every row after them is still
\* processed.
C14_OneItemPerValidRow ==
    call.op = "map_sales_to_declaration" =>
        LET Valid(row) == /\ row.ITEM_SOLD.kind # "nan"
                          /\ row.DF_US.kind = "number"
            kept  == SelectSeq(call.sales, Valid)
            items == call.result.declaration.items
            log   == call.result.log
        IN  /\ Len(items) = Len(kept)
            /\ \A k \in DOMAIN items :
                   /\ items[k].description = Strip(kept[k].ITEM_SOLD.value)
                   /\ items[k].customs_value = kept[k].DF_US.value
            /\ Len(log) = Len(call.sales)
            /\ \A i \in DOMAIN log :
                   /\ log[i].row = i - 1
                   /\ (log[i].event = "match") = Valid(call.sales[i])

\* the first row raises (its value is no number) and the second is mapped
C14_Witness ==
    /\ call.op = "map_sales_to_declaration"
    /\ Len(call.sales) = 2
    /\ call.sales[1].DF_US.kind = "str"
    /\ call.result.log[1].event = "error"
    /\ call.result.log[2].event = "match"
    /\ Len(call.result.declaration.items) = 1
    /\ call.result.declaration.items[1].description = "LADIES STRAW HAT"

\* C15: the country of origin of each item is the origin of the detail
\* record that get_best_match returns for the row's description where that
\* record has an origin, and 'US' otherwise.
C15_OriginPrecedence ==
    call.op = "map_sales_to_declaration" =>
        LET items == call.result.declaration.items
        IN  \A k \in DOMAIN items :
                LET details == get_best_match(description_to_hs, hs_to_details,
                                              keyword_mappings,
                                              items[k].description,
                                              call.raises).details
                IN  items[k].country_of_origin =
                        IF "origin" \in DOMAIN details /\ details.origin # ""
                        THEN details.origin
                        ELSE "US"

\* C16: every item appended by map_sales_to_declaration has gross_weight > 0,
\* net_weight > 0, net_weight <= gross_weight, quantity > 0 and
\* package_count > 0.
C16_ItemInvariants ==
    call.op = "map_sales_to_declaration" =>
        LET items == call.result.declaration.items
        IN  \A k \in DOMAIN items :
                /\ FracLess(Whole(0), items[k].gross_weight)
                /\ FracLess(Whole(0), items[k].net_weight)
                /\ FracLeq(items[k].net_weight, items[k].gross_weight)
                /\ FracLess(Whole(0), items[k].quantity)
                /\ items[k].package_count > 0

----------------------------------------------------------------------------
(* Properties of Declaration.                                              *)

RECURSIVE SumOver(_, _)
\* the sum of the fractions f[i] over the indices i in S
SumOver(f, S) ==
    IF S = {} THEN Whole(0)
    ELSE LET i == CHOOSE j \in S : TRUE
         IN  FracPlus(f[i], SumOver(f, S \ {i}))

\* C17: calculate_totals returns total_packages = the sum of package_count,
\* total_gross_weight and total_net_weight = the sums of the item weights,
\* total_value = the sum of customs_value and total_items = the number of
\* items: 6 packages and a value of 35 for package counts [1,2,3] with
\* values [10,20,5], all zeros for no items.
C17_Totals ==
    call.op = "calculate_totals" =>
        LET items == declaration.items
            idx   == DOMAIN items
            t     == call.result
        IN  /\ Whole(t.total_packages) =
                   SumOver([i \in idx |-> Whole(items[i].package_count)], idx)
            /\ Whole(t.total_value) =
                   SumOver([i \in idx |-> Whole(items[i].customs_value)], idx)
            /\ t.total_gross_weight =
                   SumOver([i \in idx |-> items[i].gross_weight], idx)
            /\ t.total_net_weight =
                   SumOver([i \in idx |-> items[i].net_weight], idx)
            /\ t.total_items = Cardinality(idx)
            /\ ([i \in idx |-> <<items[i].package_count, items[i].customs_value>>]
                    = << <<1, 1000>>, <<2, 2000>>, <<3, 500>> >>)
                   => (t.total_packages = 6 /\ t.total_value = 3500)
            /\ items = << >> =>
                   t = [total_value |-> 0, total_gross_weight |-> Whole(0),
                        total_net_weight |-> Whole(0), total_packages |-> 0,
                        total_items |-> 0]

\* package counts [1,2,3] with values [10,20,5]
C17_Witness ==
    /\ call.op = "calculate_totals"
    /\ Len(declaration.items) = 3
    /\ \A i \in 1..3 : declaration.items[i].package_count = i
    /\ declaration.items[1].customs_value = 1000
    /\ declaration.items[2].customs_value = 2000
    /\ declaration.items[3].customs_value = 500
    /\ call.result.total_packages = 6
    /\ call.result.total_value = 3500
    /\ call.result.total_gross_weight = Fraction(2701, 2)

\* C18: from a declaration without items and total_packages 0, after any
\* add_item and calculate_totals calls total_packages is the sum of
\* package_count over the items; calculate_totals changes no item and no
\* item order, and a second calculate_totals changes nothing and returns
\* the same totals.
C18_CachedTotalPackages ==
    /\ [](Whole(declaration.total_packages) =
              SumOver([i \in DOMAIN declaration.items |->
                          Whole(declaration.items[i].package_count)],
                      DOMAIN declaration.items))
    /\ [][(call = Idle /\ call'.op = "calculate_totals") =>
              /\ declaration'.items = declaration.items
              /\ calculate_totals(declaration') =
                     [declaration |-> declaration', totals |-> call'.result]]_vars

\* totals of a declaration whose second item has no package
C18_Witness ==
    /\ call.op = "calculate_totals"
    /\ Len(declaration.items) = 2
    /\ declaration.items[1].package_count = 3
    /\ declaration.items[2].package_count = 0
    /\ declaration.total_packages = 3

----------------------------------------------------------------------------
(* Properties of the validators.                                           *)

\* C19: an Item with net_weight > gross_weight fails every validation with
\* the error 'net weight cannot exceed gross weight': Item.validate raises
\* it, and the error lists of FieldConstraints.validate_item and of
\* DeclarationValidator hold it, for items that were never validated too.
C19_NetAboveGrossAlwaysReported ==
    LET NetAboveGross(item) == FracLess(item.gross_weight, item.net_weight)
        Specific(error) ==
            Contains("net weight cannot exceed gross weight", Lower(error))
    IN  /\ (call.op = "Item.validate" /\ NetAboveGross(call.item)) =>
               Specific(call.raised)
        /\ (call.op = "validate_item" /\ NetAboveGross(call.item)) =>
               \E i \in DOMAIN call.result : Specific(call.result[i])
        /\ call.op = "validate_declaration" =>
               \A k \in DOMAIN declaration.items :
                   NetAboveGross(declaration.items[k]) =>
                       /\ ~call.result.is_valid
                       /\ \E i \in DOMAIN call.result.errors :
                              Specific(call.result.errors[i])

\* C20: a declaration without items fails validate_declaration with the
\* error 'Declaration must have at least one item', whatever its header
\* fields and entities: the result is invalid and its errors hold that one.
C20_NoItemsAlwaysReported ==
    (call.op = "validate_declaration" /\ declaration.items = << >>) =>
        /\ ~call.result.is_valid
        /\ \E i \in DOMAIN call.result.errors :
               call.result.errors[i] = "Declaration must have at least one item"

\* a declaration without items whose header and entities fail as well
C20_Witness ==
    /\ call.op = "validate_declaration"
    /\ declaration.items = << >>
    /\ declaration.registration_number = "ex-1"
    /\ declaration.exporter.id = ""
    /\ Len(call.result.errors) > 3
    /\ ~call.result.is_valid

\* C21: validate_declaration never stops at a failing check: the errors of the
\* header check, then of the exporter check, then of the declarant check,
\* then of each item's check in item order, all stand in that order at the
\* head of the result's error list; is_valid is false exactly when an error
\* was recorded; and validating the same declaration again gives a result
\* equal to the one before.
C21_NeverShortCircuits ==
    call.op = "validate_declaration" =>
        LET checks == << _validate_header(declaration),
                         _validate_entity(declaration.exporter, "exporter"),
                         _validate_entity(declaration.declarant, "declarant") >>
                      \o [i \in 1..Len(declaration.items) |->
                              _validate_item(declaration.items[i], i)]
            all[i \in 0..Len(checks)] ==
                IF i = 0 THEN << >> ELSE all[i - 1] \o checks[i].errors
            expected == all[Len(checks)]
            errors == call.result.errors
        IN  /\ Len(errors) >= Len(expected)
            /\ SubSeq(errors, 1, Len(expected)) = expected
            /\ call.result.is_valid <=> errors = << >>
            /\ call.result = call.earlier

\* a second validation of a declaration whose header, exporter, declarant
\* and two of whose items each fail a check
C21_Witness ==
    /\ call.op = "validate_declaration" /\ call.calls = 2
    /\ ~_validate_header(declaration).is_valid
    /\ ~_validate_entity(declaration.exporter, "exporter").is_valid
    /\ ~_validate_entity(declaration.declarant, "declarant").is_valid
    /\ Len(declaration.items) >= 2
    /\ ~_validate_item(declaration.items[1], 1).is_valid
    /\ ~_validate_item(declaration.items[2], 2).is_valid
    /\ ~call.result.is_valid

\* C22: result.merge(other) leaves in result the AND of the two flags and its
\* own errors and warnings followed by those of other, in order, and leaves
\* other as it was; merging is associative; and the flag and the multisets
\* of errors and of warnings of a merge do not depend on the order of the
\* results merged.
C22_Merge ==
    LET a == result_pair[1]
        b == result_pair[2]
        Thirds == {a, b, ValidationResult, merge(a, b),
                   add_warning(add_error(ValidationResult, "third"), "third")}
        Count(list, x) == Cardinality({k \in DOMAIN list : list[k] = x})
        SameBag(s, t) ==
            /\ Len(s) = Len(t)
            /\ \A k \in DOMAIN s : Count(s, s[k]) = Count(t, s[k])
        SameOutcome(r, s) ==
            /\ r.is_valid = s.is_valid
            /\ SameBag(r.errors, s.errors)
            /\ SameBag(r.warnings, s.warnings)
    IN  /\ call.op = "merge" =>
               /\ result_pair[call.i] =
                      [is_valid |-> call.before.is_valid /\ call.other.is_valid,
                       errors   |-> call.before.errors \o call.other.errors,
                       warnings |-> call.before.warnings \o call.other.warnings]
               /\ result_pair[call.j] = call.other
        /\ \A c \in Thirds :
               /\ merge(merge(a, b), c) = merge(a, merge(b, c))
               /\ merge(merge(b, a), c) = merge(b, merge(a, c))
               /\ merge(merge(c, a), b) = merge(c, merge(a, b))
               /\ SameOutcome(merge(a, b), merge(b, a))
               /\ SameOutcome(merge(merge(a, b), c), merge(merge(c, b), a))
               /\ SameOutcome(merge(merge(a, b), c), merge(merge(b, c), a))

\* a result with an error and a warning has just been merged into a result
\* that held a different error of its own
C22_Witness ==
    /\ call.op = "merge"
    /\ call.before.errors # << >> /\ call.other.errors # << >>
    /\ call.before.errors # call.other.errors
    /\ call.other.warnings # << >>
    /\ Len(result_pair[call.i].errors) = 2

\* C28: a ValidationResult built from ValidationResult() with add_error,
\* add_warning and merge only is valid exactly when its error list is empty;
\* add_warning leaves is_valid as it was; and no operation makes an invalid
\* result valid again.
C28_ValidIffNoErrors ==
    /\ \A i \in DOMAIN result_pair :
           result_pair[i].is_valid <=> result_pair[i].errors = << >>
    /\ call.op = "add_warning" =>
           result_pair[call.i].is_valid = call.before.is_valid
    /\ call.op \in {"add_error", "add_warning", "merge"} =>
           (~call.before.is_valid => ~result_pair[call.i].is_valid)

\* a second warning has just been added to an invalid result that holds an
\* error, while the other result is valid and holds a warning
C28_Witness ==
    /\ call.op = "add_warning"
    /\ ~call.before.is_valid
    /\ Len(result_pair[call.i].warnings) = 2
    /\ result_pair[call.i].errors # << >>
    /\ result_pair[3 - call.i].is_valid
    /\ result_pair[3 - call.i].warnings # << >>

\* C23: the text written for a declaration reads back, with the pipe
\* delimiter and minimal quoting, as one row headed 'H' followed by one row
\* headed 'I' per item in item order, and the fields of each 'I' row give
\* back the item's number, code, description, origin, weights, quantity,
\* customs value and package count, also for descriptions holding '|' or a
\* quote character.
C23_RoundTrip ==
    call.op = "generate" =>
        LET rows == ReadRows(call.output, << >>, << >>, FALSE)
            items == declaration.items
            Digits(text) ==
                LET value[i \in 0..Len(text)] ==
                        IF i = 0 THEN 0
                        ELSE value[i - 1] * 10
                                 + IndexOf(Char(text, i), DigitAlphabet) - 1
                IN  value[Len(text)]
            IsDigits(text) ==
                /\ Len(text) > 0
                /\ \A i \in 1..Len(text) :
                       IndexOf(Char(text, i), DigitAlphabet) > 0
            Point(text) == CHOOSE i \in 1..Len(text) : Char(text, i) = "."
            IsFloat(text) ==
                /\ \E i \in 1..Len(text) : Char(text, i) = "."
                /\ IsDigits(SubSeq(text, 1, Point(text) - 1))
                /\ IsDigits(SubSeq(text, Point(text) + 1, Len(text)))
            \* float(text) * unit
            Float(text, unit) ==
                LET decimals == SubSeq(text, Point(text) + 1, Len(text))
                    scale[i \in 0..Len(decimals)] ==
                        IF i = 0 THEN 1 ELSE 10 * scale[i - 1]
                IN  Fraction(unit * (Digits(SubSeq(text, 1, Point(text) - 1))
                                         * scale[Len(decimals)]
                                     + Digits(decimals)),
                             scale[Len(decimals)])
        IN  /\ Len(rows) = Len(items) + 1
            /\ rows[1][1] = "H"
            /\ \A k \in DOMAIN items :
                   LET fields == rows[k + 1]
                       item == items[k]
                   IN  /\ Len(fields) = 14
                       /\ fields[1] = "I"
                       /\ IsDigits(fields[2])
                       /\ Digits(fields[2]) = item.item_number
                       /\ fields[3] = item.hs_code
                       /\ fields[4] = item.description
                       /\ fields[5] = item.country_of_origin
                       /\ \A n \in {6, 7, 9, 10} : IsFloat(fields[n])
                       /\ Float(fields[6], 1000) = item.gross_weight
                       /\ Float(fields[7], 1000) = item.net_weight
                       /\ Float(fields[9], 1) = item.quantity
                       /\ Float(fields[10], 100) = Whole(item.customs_value)
                       /\ IsDigits(fields[12])
                       /\ Digits(fields[12]) = item.package_count

\* the text of a declaration of three items, one description holding the
\* delimiter and the next holding quote characters
C23_Witness ==
    /\ call.op = "generate"
    /\ Len(declaration.items) = 3
    /\ declaration.items[2].description = "BAG | COSMETIC"
    /\ declaration.items[3].description = "6\" NAIL \"STEEL\""
    /\ Contains("|\"BAG | COSMETIC\"|", call.output)
    /\ Contains("|\"6\"\" NAIL \"\"STEEL\"\"\"|IT|0.015|0.015|NMB|2.5|0.05|PE|30|",
                call.output)

\* C24: a match call leaves description_to_hs, hs_to_details and
\* keyword_mappings as they were, so after any number of match calls the
\* result of get_best_match is the one a first call on the store as loaded
\* from the reference rows gives.
C24_ResolutionReadsOnly ==
    /\ [][(call = Idle /\ call'.op \in {"get_best_match", "fuzzy_match"}) =>
              /\ description_to_hs' = description_to_hs
              /\ hs_to_details' = hs_to_details
              /\ keyword_mappings' = keyword_mappings]_vars
    /\ [](call.op = "get_best_match" =>
              LET loaded == LoadRows([description_to_hs |-> << >>,
                                      hs_to_details |-> << >>], reference_rows)
              IN  /\ keyword_mappings \in {<< >>, KeywordTable}
                  /\ call.result =
                         get_best_match(loaded.description_to_hs,
                                        loaded.hs_to_details, keyword_mappings,
                                        call.description, call.raises))

\* a description resolved by the fuzzy stage on a store of two loaded rows
C24_Witness ==
    /\ call.op = "get_best_match"
    /\ call.result.method = "fuzzy"
    /\ Len(reference_rows) = 2
    /\ Len(description_to_hs) >= 2

\* C29: on a matcher that has loaded nothing the keyword table is empty,
\* keyword_match finds nothing, and get_best_match resolves every non-empty
\* description by 'default' with confidence 30, never by 'keyword'; every
\* load_reference_data call, the one with a table of zero rows included,
\* leaves the full keyword table in place.
C29_KeywordStageNeedsLoad ==
    /\ keyword_mappings \in {<< >>, KeywordTable}
    /\ keyword_mappings = << >> =>
           /\ description_to_hs = << >>
           /\ \A d \in SalesDescriptions :
                  keyword_match(keyword_mappings, d) = NoneValue
           /\ (call.op = "get_best_match" /\ call.description # "") =>
                  /\ call.result.method = "default"
                  /\ call.result.confidence = Whole(30)
    /\ reference_rows # << >> => keyword_mappings = KeywordTable
    /\ call = Idle =>
           /\ ENABLED (LoadReferenceData(<< >>)
                          /\ keyword_mappings' = KeywordTable)
           /\ ~ENABLED (LoadReferenceData(<< >>)
                           /\ keyword_mappings' # KeywordTable)

\* a description that holds the keyword HAT, resolved on a matcher that has
\* loaded nothing
C29_Witness ==
    /\ call.op = "get_best_match"
    /\ keyword_mappings = << >>
    /\ Contains("HAT", Upper(call.description))
    /\ call.result.method = "default"

\* C30: when get_best_match resolves a description by exact match, the
\* detail record it returns is that of a loaded reference row whose
\* description or product code equals the input: origin, office, document
\* number and line are that row's, also when rows share a code.
C30_ExactDetailsOfMatchedRow ==
    (call.op = "get_best_match" /\ call.result.method = "exact") =>
        \E i \in DOMAIN reference_rows :
            LET row == reference_rows[i]
                key == Upper(Strip(call.description))
                details == call.result.details
            IN  /\ ReferenceKey(row.Description) # ""
                /\ StoredCode(row.HS_Code) # ""
                /\ \/ ReferenceKey(row.Description) = key
                   \/ Strip(row.Product) # "" /\ Upper(Strip(row.Product)) = key
                /\ details # EmptyDict
                /\ details.origin = Strip(row.Origin)
                /\ details.office = Strip(row.Office)
                /\ details.c_nbr = Strip(row.C_Nbr)
                /\ details.line = Strip(row.Line)

\* C25: in a run, a processed sales file is moved to the archive directory
\* exactly when processing gave a result that reports success, every
\* validation result in it is valid and the file is not in the archive
\* directory already; in every other case, an invalid validation result or a
\* failed processing among them, the file stays where it is.
C25_ArchivedIffAllValid ==
    [][Len(task_run'.results) = Len(task_run.results) + 1 =>
          LET sales_file == task_run.sales_files[Len(task_run'.results)]
              outcome == task_run'.results[Len(task_run'.results)]
              Valid(i) == outcome.validation_results[i][2].is_valid
              archivable ==
                  /\ outcome.kind = "result"
                  /\ outcome.success
                  /\ \A i \in DOMAIN outcome.validation_results : Valid(i)
                  /\ sales_file.dir # "archive"
          IN  IF archivable
              THEN /\ sales_file.name \notin directories'[sales_file.dir]
                   /\ directories'.archive =
                          directories.archive \cup {sales_file.name}
              ELSE directories' = directories]_vars

\* a run has moved its first file, whose validation result was valid, and
\* left its second, one of whose two validation results was invalid
C25_Witness ==
    /\ Len(task_run.results) = 2
    /\ task_run.sales_files[1].dir = "sales"
    /\ task_run.sales_files[2].dir = "sales"
    /\ Len(task_run.results[1].validation_results) = 1
    /\ task_run.results[1].success
    /\ task_run.sales_files[1].name \in directories.archive
    /\ task_run.sales_files[1].name \notin directories.sales
    /\ task_run.results[2].success
    /\ Len(task_run.results[2].validation_results) = 2
    /\ ~task_run.results[2].validation_results[2][2].is_valid
    /\ task_run.sales_files[2].name \in directories.sales

\* C26: the status of a ScheduledTask is 'pending' until its first run and
\* 'running' while the run processes files; when run has returned it is
\* 'completed' or 'failed'; and a run whose processing of a sales file
\* raised has still processed every file it found and ends 'completed'.
C26_StatusProtocol ==
    /\ scheduled_task.status \in {"pending", "running", "completed", "failed"}
    /\ scheduled_task.status = "pending" <=> scheduled_task.last_run = NoneValue
    /\ scheduled_task.status = "running" <=> task_run.pc = "files"
    /\ (task_run.pc = "returned" /\ scheduled_task.last_run # NoneValue) =>
           scheduled_task.status \in {"completed", "failed"}
    /\ (task_run.pc = "returned" /\ task_run.results # << >>) =>
           /\ Len(task_run.results) = Len(task_run.sales_files)
           /\ scheduled_task.status = "completed"

\* a run has returned after its first file raised and its second was
\* processed
C26_Witness ==
    /\ task_run.pc = "returned"
    /\ Len(task_run.results) = 2
    /\ task_run.results[1].kind = "raises"
    /\ task_run.results[2].kind = "result"
    /\ scheduled_task.status = "completed"

\* C27: after any add_task and remove_task calls the schedule holds exactly
\* one job tagged with each task id in tasks and none tagged with another
\* id, and every job runs the task that tasks holds under its tag.
C27_OneJobPerTask ==
    LET Tagged(task_id) == {i \in DOMAIN jobs : jobs[i].tag = task_id}
    IN  /\ \A task_id \in {"daily_sales", "weekly_sales", "shop"} :
               Cardinality(Tagged(task_id)) =
                   IF DictHas(tasks, task_id) THEN 1 ELSE 0
        /\ \A i \in DOMAIN jobs :
               /\ DictHas(tasks, jobs[i].tag)
               /\ jobs[i].task = DictGet(tasks, jobs[i].tag, NoneValue)

====
